---- MODULE Spec2Model ----
(***************************************************************************)
(* Market-data pipeline of the Polymarket arbitrage bot:                   *)
(*   MarketWebSocket  (services/websocket, src/unnamed/part_003)           *)
(*   MarketManager    (services/market,    src/core/signer.ts 300-489)     *)
(*   FlashCrashStrategy (src/strategies/flash-crash.ts)                    *)
(* One action per handler.  A handler that runs to its next suspension     *)
(* point without yielding to the event loop is one step.                   *)
(***************************************************************************)
EXTENDS Integers, Sequences, FiniteSets, TLC

(* ------------------------------ bounds --------------------------------- *)
\* instrument ids are 1..NumAssets; 0 stands for the empty string ''
NumAssets == 2
\* MarketWebSocket objects that may be constructed in one behaviour
MaxTransports == 2
\* onBookUpdate registrations in one behaviour
MaxListeners == 2
\* samples per side the feed of the strategy specification fills
MaxHistory == 2
\* clock readings after the first, five seconds apart
MaxNow == 2
\* samples per side the feed of the detection specification fills
MaxSamples == 3
\* samples the feed of the history specification hands to one side
MaxAppends == 102

(* ------------------------- program constants --------------------------- *)
\* constructor default reconnectInterval (seconds)
DefaultReconnectInterval == 5
\* prices are in thousandths: 1.0 bestAsk default, 0.5 midPrice default
AskDefault == 1000
MidDefault == 500
\* recordPrice keeps the last 100 samples
HistoryCap == 100

Assets == 1..NumAssets
Keys == 0..NumAssets
Transports == 1..MaxTransports
\* the strategy's own book listener (flash-crash.ts 44-46)
StrategyListener == "strategy"
\* parseFloat of a string that is no number
NaN == -1
\* a positive number divided by 0
Infinity == -2

VARIABLES
    \* MarketWebSocket, one entry per constructed object
    created,            \* the object exists
    wsRunning,          \* this.running
    ws,                 \* this.ws is defined (refers to the latest socket)
    sockState,          \* readyState of the socket made by the latest connect()
    subscribedAssets,   \* this.subscribedAssets
    orderbooks,         \* this._orderbooks: key -> snapshot
    reconnectTimer,     \* this.reconnectTimer: unset | armed | fired | cleared
    timerDelay,         \* milliseconds given to the latest setTimeout
    pingTimer,          \* this.pingTimer is set
    onErrorCallback,    \* an error callback is registered
    wired,              \* book/connect/disconnect callbacks are MarketManager's
    runPc,              \* where run() is: idle | connecting | serving | delay | done
    autoReconnect,      \* run()'s argument
    \* MarketManager
    mmRunning,          \* this.running
    mmWs,               \* this.ws: 0 (undefined) or a transport
    currentMarket,      \* this.currentMarket
    wsConnected,        \* this.wsConnected
    onBookCallbacks,    \* this.onBookCallbacks
    mmPc,               \* start(): idle | discovering
    mmStops,            \* stop() calls since the last start() call, up to 2
    gamma,              \* GammaClient.getCurrent15mMarket: where it is, what it asked
    wait,               \* MarketManager.waitForData: where it is, what its polls saw
    onMarketChangeCallbacks, \* the market-change listeners, in registration order
    \* FlashCrashStrategy
    fcRunning,          \* this.running
    fcPc,               \* where run() is
    priceHistory,       \* this.priceHistory
    config,             \* this.config
    order,              \* the placeOrder call onTick is waiting for
    now,                \* Date.now(), in units of five seconds
    waitStart,          \* waitForData's start
    fcStopCalled,       \* stop() was called after run() was invoked
    submitted,          \* orders placed for a side since its last sample, up to 2
    appended,           \* every sample recordPrice was given, per side
    \* what the last handler did, and history the claims speak about
    ev,                 \* the handler, its return value, messages sent, callbacks
    delivered,          \* listener invocations of the last book fan-out
    stopRequested,      \* stop() or disconnect() was called since run() began
    subsAtLoss,         \* subscribedAssets when the connection was last lost
    lostOnce,           \* a connection was lost
    callerSubscribed,   \* subscribe() was called by the caller since that loss
    deferred            \* ids recorded by subscribe() while not connected

trVars == <<created, wsRunning, ws, sockState, subscribedAssets, orderbooks,
            reconnectTimer, timerDelay, pingTimer, onErrorCallback, wired,
            runPc, autoReconnect>>
mmVars == <<mmRunning, mmWs, currentMarket, wsConnected, onBookCallbacks, mmPc,
            mmStops, gamma, wait,
            onMarketChangeCallbacks>>
fcVars == <<fcRunning, fcPc, priceHistory, config, order, now, waitStart,
            fcStopCalled, submitted, appended>>
histVars == <<stopRequested, subsAtLoss, lostOnce, callerSubscribed, deferred>>
vars == <<trVars, mmVars, fcVars, ev, delivered, histVars>>

(* ------------------------------ feed data ------------------------------ *)
EmptyMap == [k \in {} |-> 0]

MapSet(m, k, v) == [x \in (DOMAIN m) \cup {k} |-> IF x = k THEN v ELSE m[x]]

\* a feed message after JSON.parse; json = FALSE is text that does not parse,
\* wellFormed = FALSE is a book whose bids/asks are not arrays of objects
Msg(j, e, a, b, k, w) ==
    [json |-> j, event_type |-> e, asset_id |-> a, bids |-> b, asks |-> k,
     wellFormed |-> w]

NoMsg == Msg(TRUE, "none", 0, <<>>, <<>>, TRUE)

Level(p, s) == [price |-> p, size |-> s]

RECURSIVE SeqsUpTo(_, _)
SeqsUpTo(S, n) ==
    IF n = 0 THEN {<<>>}
    ELSE LET shorter == SeqsUpTo(S, n - 1)
         IN  shorter \cup {Append(q, x) : q \in {r \in shorter : Len(r) = n - 1}, x \in S}

(* --------------------- parseOrderbookSnapshot -------------------------- *)
\* a.price - b.price < 0 of the sort comparators; any NaN operand gives NaN,
\* which the sort treats as 0
Less(a, b) == a # NaN /\ b # NaN /\ a < b

\* Array.prototype.sort is stable: x goes behind every element it is not
\* strictly before
RECURSIVE InsertLevel(_, _, _)
InsertLevel(sorted, x, desc) ==
    IF sorted = <<>> THEN <<x>>
    ELSE LET last == sorted[Len(sorted)]
             xFirst == IF desc THEN Less(last.price, x.price)
                       ELSE Less(x.price, last.price)
         IN  IF xFirst
             THEN Append(InsertLevel(SubSeq(sorted, 1, Len(sorted) - 1), x, desc), last)
             ELSE Append(sorted, x)

RECURSIVE SortLevels(_, _)
SortLevels(levels, desc) ==
    IF levels = <<>> THEN <<>>
    ELSE InsertLevel(SortLevels(SubSeq(levels, 1, Len(levels) - 1), desc),
                     levels[Len(levels)], desc)

\* bestBid > 0 && bestAsk < 1 ? (bestBid + bestAsk) / 2 : bestBid > 0 ? bestBid
\*   : bestAsk < 1 ? bestAsk : 0.5
MidPrice(bestBid, bestAsk) ==
    IF Less(0, bestBid) /\ Less(bestAsk, AskDefault)
    THEN (bestBid + bestAsk) \div 2
    ELSE IF Less(0, bestBid) THEN bestBid
    ELSE IF Less(bestAsk, AskDefault) THEN bestAsk
    ELSE MidDefault

\* parseFloat of the decimal strings the feed carries; anything else is NaN
parseFloat(str) ==
    CASE str = "0"    -> 0
      [] str = "0.25" -> 250
      [] str = "0.30" -> 300
      [] str = "0.40" -> 400
      [] str = "0.44" -> 440
      [] str = "0.60" -> 600
      [] str = "0.98" -> 980
      [] str = "0.99" -> 990
      [] str = "1"    -> 1000
      [] str = "10"   -> 10
      [] str = "25"   -> 25
      [] OTHER        -> NaN

\* (data.bids || []).map(b => ({price: parseFloat(b.price), size: parseFloat(b.size)}))
ParseLevels(raw) ==
    [i \in 1..Len(raw) |-> Level(parseFloat(raw[i].price), parseFloat(raw[i].size))]

parseOrderbookSnapshot(data) ==
    LET bids == SortLevels(ParseLevels(data.bids), TRUE)
        asks == SortLevels(ParseLevels(data.asks), FALSE)
        bestBid == IF Len(bids) > 0 THEN bids[1].price ELSE 0
        bestAsk == IF Len(asks) > 0 THEN asks[1].price ELSE AskDefault
    IN  [assetId |-> data.asset_id, bids |-> bids, asks |-> asks,
         bestBid |-> bestBid, bestAsk |-> bestAsk,
         midPrice |-> MidPrice(bestBid, bestAsk)]

(* ---------------------------- MarketWebSocket -------------------------- *)
Ev(op, t, ids, ret, sent, cbs, msg) ==
    [op |-> op, t |-> t, ids |-> ids, ret |-> ret, sent |-> sent, cbs |-> cbs,
     msg |-> msg]

isConnected(t) == ws[t] /\ sockState[t] = "open"

\* if (this.onErrorCallback) this.onErrorCallback(error)
ErrorCb(t) == IF onErrorCallback[t] THEN <<"error">> ELSE <<>>

\* onConnectCallback / onDisconnectCallback exist only when MarketManager set them
ConnectCb(t) == IF wired[t] THEN <<"connect">> ELSE <<>>

DisconnectCb(t) == IF wired[t] THEN <<"disconnect">> ELSE <<>>

\* this.reconnectInterval * 1000; the field is assigned by the constructor only
ReconnectDelayBackoff(t) ==
    IF reconnectTimer[t] = "unset" THEN DefaultReconnectInterval * 1000
    ELSE 2 * timerDelay[t]

ReconnectDelayMs(t) == DefaultReconnectInterval * 1000

\* run(), after a connection attempt is over: leave, or wait and try again
AfterAttemptGiveUp(t) == "done"

AfterAttempt(t) ==
    IF ~wsRunning[t] THEN "done"
    ELSE IF autoReconnect[t] THEN "delay"
    ELSE "done"

\* run(), loop head: while (this.running) connect()
LoopHead(t) == IF wsRunning[t] THEN "connecting" ELSE "done"

\* the subscribe messages run() sends once connected
ResubscribeNothing(t) == <<>>

ResubscribeMsgs(t) ==
    IF subscribedAssets[t] # {} THEN <<subscribedAssets[t]>> ELSE <<>>

\* subscribe(): the subscribed set after the call
SubscribedAfterOnlyIfConnected(t, ids, replace) ==
    IF isConnected(t)
    THEN (IF replace THEN {} ELSE subscribedAssets[t]) \cup ids
    ELSE subscribedAssets[t]

SubscribedAfter(t, ids, replace) ==
    (IF replace THEN {} ELSE subscribedAssets[t]) \cup ids

\* what the manager's connect/disconnect callbacks leave in wsConnected
WsConnectedAfter(t, cbs) ==
    IF cbs # <<>> /\ cbs[Len(cbs)] = "disconnect" THEN FALSE
    ELSE IF cbs # <<>> /\ cbs[Len(cbs)] = "connect" THEN TRUE
    ELSE wsConnected

OnError(t) ==
    /\ created[t]
    /\ ~onErrorCallback[t]
    /\ onErrorCallback' = [onErrorCallback EXCEPT ![t] = TRUE]
    /\ ev' = Ev("onError", t, {}, TRUE, <<>>, <<>>, NoMsg)
    /\ delivered' = <<>>
    /\ UNCHANGED <<created, wsRunning, ws, sockState, subscribedAssets, orderbooks,
                   reconnectTimer, timerDelay, pingTimer, wired, runPc, autoReconnect>>
    /\ UNCHANGED <<mmVars, fcVars, histVars>>

\* run(autoReconnect) up to its first await: this.running = true, connect()
Run(t, auto) ==
    /\ created[t]
    /\ runPc[t] = "idle"
    /\ wsRunning' = [wsRunning EXCEPT ![t] = TRUE]
    /\ autoReconnect' = [autoReconnect EXCEPT ![t] = auto]
    /\ ws' = [ws EXCEPT ![t] = TRUE]
    /\ sockState' = [sockState EXCEPT ![t] = "connecting"]
    /\ runPc' = [runPc EXCEPT ![t] = "connecting"]
    /\ ev' = Ev("run", t, {}, TRUE, <<>>, <<>>, NoMsg)
    /\ delivered' = <<>>
    /\ stopRequested' = [stopRequested EXCEPT ![t] = FALSE]
    /\ UNCHANGED <<created, subscribedAssets, orderbooks, reconnectTimer, timerDelay,
                   pingTimer, onErrorCallback, wired>>
    /\ UNCHANGED <<mmVars, fcVars, subsAtLoss, lostOnce, callerSubscribed, deferred>>

\* 'open': connect callback, startPing, connect() resolves true; run() subscribes
\* to this.subscribedAssets and waits for the socket's 'close'
Open(t) ==
    /\ runPc[t] = "connecting"
    /\ sockState[t] = "connecting"
    /\ sockState' = [sockState EXCEPT ![t] = "open"]
    /\ pingTimer' = [pingTimer EXCEPT ![t] = TRUE]
    /\ runPc' = [runPc EXCEPT ![t] = "serving"]
    /\ wsConnected' = WsConnectedAfter(t, ConnectCb(t))
    /\ ev' = Ev("open", t, {}, TRUE, ResubscribeMsgs(t), ConnectCb(t), NoMsg)
    /\ delivered' = <<>>
    /\ deferred' = [deferred EXCEPT ![t] = {}]
    /\ UNCHANGED <<created, wsRunning, ws, subscribedAssets, orderbooks, reconnectTimer,
                   timerDelay, onErrorCallback, wired, autoReconnect>>
    /\ UNCHANGED <<mmRunning, mmWs, currentMarket, onBookCallbacks, gamma, wait, mmPc, mmStops,
                   onMarketChangeCallbacks>>
    /\ UNCHANGED <<fcVars, stopRequested, subsAtLoss, lostOnce, callerSubscribed>>

\* what run() does when the attempt or the connection is over (lines 333-343)
EndAttempt(t) ==
    /\ runPc' = [runPc EXCEPT ![t] = AfterAttempt(t)]
    /\ reconnectTimer' = [reconnectTimer EXCEPT ![t] =
                            IF AfterAttempt(t) = "delay" THEN "armed" ELSE @]
    /\ timerDelay' = [timerDelay EXCEPT ![t] =
                            IF AfterAttempt(t) = "delay" THEN ReconnectDelayMs(t) ELSE @]

\* the handshake fails, or close() aborted it: 'error' then 'close' on the socket;
\* connect() resolves false
ConnectFail(t) ==
    /\ runPc[t] = "connecting"
    /\ sockState[t] \in {"connecting", "closing"}
    /\ sockState' = [sockState EXCEPT ![t] = "closed"]
    /\ pingTimer' = [pingTimer EXCEPT ![t] = FALSE]
    /\ EndAttempt(t)
    /\ wsConnected' = WsConnectedAfter(t, DisconnectCb(t))
    /\ ev' = Ev("connectFail", t, {}, FALSE, <<>>, ErrorCb(t) \o DisconnectCb(t), NoMsg)
    /\ delivered' = <<>>
    /\ UNCHANGED <<created, wsRunning, ws, subscribedAssets, orderbooks,
                   onErrorCallback, wired, autoReconnect>>
    /\ UNCHANGED <<mmRunning, mmWs, currentMarket, onBookCallbacks, gamma, wait, mmPc, mmStops,
                   onMarketChangeCallbacks>>
    /\ UNCHANGED <<fcVars, histVars>>

\* 'error' on an open socket: the error callback; the socket is closing
ErrorEvent(t) ==
    /\ runPc[t] = "serving"
    /\ sockState[t] = "open"
    /\ sockState' = [sockState EXCEPT ![t] = "closing"]
    /\ ev' = Ev("error", t, {}, FALSE, <<>>, ErrorCb(t), NoMsg)
    /\ delivered' = <<>>
    /\ UNCHANGED <<created, wsRunning, ws, subscribedAssets, orderbooks, reconnectTimer,
                   timerDelay, pingTimer, onErrorCallback, wired, runPc, autoReconnect>>
    /\ UNCHANGED <<mmVars, fcVars, histVars>>

\* 'close' of the socket run() is serving: stopPing, disconnect callback, and
\* run() goes on behind its wait
Close(t) ==
    /\ runPc[t] = "serving"
    /\ sockState[t] \in {"open", "closing"}
    /\ sockState' = [sockState EXCEPT ![t] = "closed"]
    /\ pingTimer' = [pingTimer EXCEPT ![t] = FALSE]
    /\ EndAttempt(t)
    /\ wsConnected' = WsConnectedAfter(t, DisconnectCb(t))
    /\ ev' = Ev("close", t, {}, TRUE, <<>>, DisconnectCb(t), NoMsg)
    /\ delivered' = <<>>
    /\ lostOnce' = [lostOnce EXCEPT ![t] = TRUE]
    /\ subsAtLoss' = [subsAtLoss EXCEPT ![t] = subscribedAssets[t]]
    /\ callerSubscribed' = [callerSubscribed EXCEPT ![t] = FALSE]
    /\ UNCHANGED <<created, wsRunning, ws, subscribedAssets, orderbooks,
                   onErrorCallback, wired, autoReconnect>>
    /\ UNCHANGED <<mmRunning, mmWs, currentMarket, onBookCallbacks, gamma, wait, mmPc, mmStops,
                   onMarketChangeCallbacks>>
    /\ UNCHANGED <<fcVars, stopRequested, deferred>>

\* the reconnect timer fires; run() is back at while (this.running)
TimerFire(t) ==
    /\ runPc[t] = "delay"
    /\ reconnectTimer[t] = "armed"
    /\ reconnectTimer' = [reconnectTimer EXCEPT ![t] = "fired"]
    /\ runPc' = [runPc EXCEPT ![t] = LoopHead(t)]
    /\ ws' = [ws EXCEPT ![t] = IF LoopHead(t) = "connecting" THEN TRUE ELSE @]
    /\ sockState' = [sockState EXCEPT ![t] =
                        IF LoopHead(t) = "connecting" THEN "connecting" ELSE @]
    /\ ev' = Ev("timer", t, {}, TRUE, <<>>, <<>>, NoMsg)
    /\ delivered' = <<>>
    /\ UNCHANGED <<created, wsRunning, subscribedAssets, orderbooks, timerDelay,
                   pingTimer, onErrorCallback, wired, autoReconnect>>
    /\ UNCHANGED <<mmVars, fcVars, histVars>>

\* stop(): this.running = false
Stop(t) ==
    /\ created[t]
    /\ wsRunning' = [wsRunning EXCEPT ![t] = FALSE]
    /\ stopRequested' = [stopRequested EXCEPT ![t] = TRUE]
    /\ ev' = Ev("stop", t, {}, TRUE, <<>>, <<>>, NoMsg)
    /\ delivered' = <<>>
    /\ UNCHANGED <<created, ws, sockState, subscribedAssets, orderbooks, reconnectTimer,
                   timerDelay, pingTimer, onErrorCallback, wired, runPc, autoReconnect>>
    /\ UNCHANGED <<mmVars, fcVars, subsAtLoss, lostOnce, callerSubscribed, deferred>>

\* WebSocket.close(): a connecting or open socket starts closing
SockAfterClose(s) == IF s \in {"connecting", "open"} THEN "closing" ELSE s

\* clearTimeout(this.reconnectTimer) when a handle was ever stored
TimerAfterClear(r) == IF r = "armed" THEN "cleared" ELSE r

\* disconnect(): the fields of transport t after the call
DisconnectFields(t) ==
    /\ wsRunning' = [wsRunning EXCEPT ![t] = FALSE]
    /\ pingTimer' = [pingTimer EXCEPT ![t] = FALSE]
    /\ reconnectTimer' = [reconnectTimer EXCEPT ![t] = TimerAfterClear(@)]
    /\ sockState' = [sockState EXCEPT ![t] = IF ws[t] THEN SockAfterClose(@) ELSE @]
    /\ ws' = [ws EXCEPT ![t] = FALSE]
    /\ stopRequested' = [stopRequested EXCEPT ![t] = TRUE]

Disconnect(t) ==
    /\ created[t]
    /\ DisconnectFields(t)
    /\ ev' = Ev("disconnect", t, {}, TRUE, <<>>, <<>>, NoMsg)
    /\ delivered' = <<>>
    /\ UNCHANGED <<created, subscribedAssets, orderbooks, timerDelay, onErrorCallback,
                   wired, runPc, autoReconnect>>
    /\ UNCHANGED <<mmVars, fcVars, subsAtLoss, lostOnce, callerSubscribed, deferred>>

\* a subscribe that empties the store whether or not replace is set
BooksAfterSubscribeAlwaysClear(books, ids, replace) ==
    IF ids # {} THEN EmptyMap ELSE books

\* if (replace) this._orderbooks.clear(), past the return for an empty list
BooksAfterSubscribe(books, ids, replace) ==
    IF ids # {} /\ replace THEN EmptyMap ELSE books

\* subscribe(assetIds, replace); ws.send on an open socket does not throw
Subscribe(t, ids, replace) ==
    /\ created[t]
    /\ subscribedAssets' = [subscribedAssets EXCEPT ![t] =
                              IF ids = {} THEN @ ELSE SubscribedAfter(t, ids, replace)]
    /\ orderbooks' = [orderbooks EXCEPT ![t] = BooksAfterSubscribe(@, ids, replace)]
    /\ ev' = Ev("subscribe", t, ids, ids # {},
                IF ids # {} /\ isConnected(t) THEN <<ids>> ELSE <<>>, <<>>, NoMsg)
    /\ delivered' = <<>>
    /\ callerSubscribed' = [callerSubscribed EXCEPT ![t] = TRUE]
    /\ deferred' = [deferred EXCEPT ![t] =
                        IF ids = {} THEN @
                        ELSE IF isConnected(t) THEN (IF replace THEN {} ELSE @)
                        ELSE (IF replace THEN {} ELSE @) \cup ids]
    /\ UNCHANGED <<created, wsRunning, ws, sockState, reconnectTimer, timerDelay,
                   pingTimer, onErrorCallback, wired, runPc, autoReconnect>>
    /\ UNCHANGED <<mmVars, fcVars, stopRequested, subsAtLoss, lostOnce>>

(* ------------------- book fan-out and the strategy's listener ---------- *)
\* a probe listener is named by what it does when invoked: it returns, throws,
\* or returns a promise that rejects; handleBookUpdate returns
Outcome(l) == IF l = StrategyListener THEN "ok" ELSE l

Invocation(l, snap) == [listener |-> l, snap |-> snap, outcome |-> Outcome(l)]

\* a forEach without the try/catch: the first throw ends the loop
RECURSIVE BookFanOutNoCatch(_, _)
BookFanOutNoCatch(cbs, snap) ==
    IF cbs = <<>> THEN <<>>
    ELSE IF Outcome(cbs[1]) = "throw" THEN <<Invocation(cbs[1], snap)>>
    ELSE <<Invocation(cbs[1], snap)>> \o BookFanOutNoCatch(Tail(cbs), snap)

\* MarketManager's onBook closure: every callback is called inside its own
\* try/catch, a returned promise gets an empty catch
RECURSIVE BookFanOut(_, _)
BookFanOut(cbs, snap) ==
    IF cbs = <<>> THEN <<>>
    ELSE <<Invocation(cbs[1], snap)>> \o BookFanOut(Tail(cbs), snap)

\* getSideForToken: tokenIds.up / tokenIds.down of the manager's current market
getSideForToken(tokenId) ==
    IF currentMarket.up # 0 /\ tokenId = currentMarket.up THEN "up"
    ELSE IF currentMarket.down # 0 /\ tokenId = currentMarket.down THEN "down"
    ELSE "none"

\* a history that refuses the new sample once it is full
recordPriceKeepOldest(history, price) ==
    IF Len(history) >= HistoryCap THEN history
    ELSE Append(history, [timestamp |-> now, price |-> price])

recordPrice(history, price) ==
    LET pushed == Append(history, [timestamp |-> now, price |-> price])
    IN  IF Len(pushed) > HistoryCap THEN Tail(pushed) ELSE pushed

handleBookUpdate(hist, snap) ==
    LET side == getSideForToken(snap.assetId)
    IN  IF side = "none" THEN hist
        ELSE [hist EXCEPT ![side] = recordPrice(@, snap.midPrice)]

RECURSIVE HistoryAfter(_, _)
HistoryAfter(hist, log) ==
    IF log = <<>> THEN hist
    ELSE HistoryAfter(IF log[1].listener = StrategyListener
                      THEN handleBookUpdate(hist, log[1].snap) ELSE hist,
                      Tail(log))

\* the samples handed to recordPrice by the same invocations, none taken out
RECURSIVE AppendedAfter(_, _)
AppendedAfter(all, log) ==
    IF log = <<>> THEN all
    ELSE LET side == getSideForToken(log[1].snap.assetId)
         IN  AppendedAfter(IF log[1].listener = StrategyListener /\ side # "none"
                           THEN [all EXCEPT ![side] =
                                   Append(@, [timestamp |-> now,
                                              price |-> log[1].snap.midPrice])]
                           ELSE all,
                           Tail(log))

(* ----------------------------- handleMessage --------------------------- *)
\* a handler that treats a kind of message it does not know as an error
ThrowsOnUnknown(m) ==
    \/ ~m.json
    \/ m.event_type \in {"book", "price_change"} /\ ~m.wellFormed
    \/ m.event_type \notin {"book", "price_change", "last_trade_price"}

\* JSON.parse throws, or a parser meets something that is no array of objects
Throws(m) ==
    \/ ~m.json
    \/ m.event_type \in {"book", "price_change"} /\ ~m.wellFormed

\* a handler that stores a snapshot for price_change messages too
StoresPriceChange(m) ==
    m.json /\ m.event_type \in {"book", "price_change"} /\ m.wellFormed

Stores(m) == m.json /\ m.event_type = "book" /\ m.wellFormed

\* the store after _orderbooks.set(snapshot.assetId, snapshot)
StoreMerged(books, snap) ==
    IF snap.assetId \in DOMAIN books
    THEN MapSet(books, snap.assetId,
                [snap EXCEPT !.bids = books[snap.assetId].bids \o @])
    ELSE MapSet(books, snap.assetId, snap)

\* a store written side by side: the bids are in, the asks are still the old ones
StoreHalfUpdated(books, snap) ==
    IF snap.assetId \in DOMAIN books
    THEN MapSet(books, snap.assetId, [snap EXCEPT !.asks = books[snap.assetId].asks])
    ELSE MapSet(books, snap.assetId, snap)

StoreSnapshot(books, snap) == MapSet(books, snap.assetId, snap)

\* MarketWebSocket.getOrderbook(assetId): the stored snapshot, or nothing
WsGetOrderbook(t, assetId) ==
    IF assetId \in DOMAIN orderbooks[t] THEN {orderbooks[t][assetId]} ELSE {}

\* 'message' on an open socket
HandleMessage(t, m) ==
    /\ created[t]
    /\ sockState[t] = "open"
    /\ LET snap == parseOrderbookSnapshot(m)
           log  == IF Stores(m) /\ wired[t]
                   THEN BookFanOut(onBookCallbacks, snap) ELSE <<>>
       IN     /\ orderbooks' = [orderbooks EXCEPT ![t] =
                                  IF Stores(m) THEN StoreSnapshot(@, snap) ELSE @]
              /\ delivered' = log
              /\ priceHistory' = HistoryAfter(priceHistory, log)
              /\ appended' = AppendedAfter(appended, log)
              /\ submitted' = [side \in {"up", "down"} |->
                                 IF appended'[side] = appended[side]
                                 THEN submitted[side] ELSE 0]
              /\ ev' = Ev("message", t, {}, ~Throws(m), <<>>,
                          IF Throws(m) THEN ErrorCb(t)
                          ELSE IF Stores(m) /\ wired[t] THEN <<"book">> ELSE <<>>, m)
    /\ UNCHANGED <<created, wsRunning, ws, sockState, subscribedAssets, reconnectTimer,
                   timerDelay, pingTimer, onErrorCallback, wired, runPc, autoReconnect>>
    /\ UNCHANGED <<mmVars, fcRunning, fcPc, config, order, now, waitStart,
                   fcStopCalled, histVars>>

(* --------------------------- initial states ---------------------------- *)
NoMarket == [defined |-> FALSE, up |-> 0, down |-> 0]

NoOrder == [tokenId |-> 0, price |-> 0, size |-> 0, orderSide |-> "none", side |-> "none"]

\* no window found
NoWindow == [found |-> FALSE, window |-> 0]

\* getCurrent15mMarket was not called yet
NoResolution ==
    [pc |-> "idle", coin |-> "BTC", now |-> 0, lookups |-> <<>>, answers |-> <<>>,
     result |-> NoWindow]

\* waitForData was not called yet
NoWait ==
    [pc |-> "idle", start |-> 0, timeout |-> 0, ret |-> FALSE, sawBook |-> FALSE,
     sawData |-> FALSE]

NoEv == Ev("init", 0, {}, TRUE, <<>>, <<>>, NoMsg)

\* every field as the constructors leave it; transports in `made` exist
InitWith(made) ==
    /\ created = [t \in Transports |-> t \in made]
    /\ wsRunning = [t \in Transports |-> FALSE]
    /\ ws = [t \in Transports |-> FALSE]
    /\ sockState = [t \in Transports |-> "none"]
    /\ subscribedAssets = [t \in Transports |-> {}]
    /\ orderbooks = [t \in Transports |-> EmptyMap]
    /\ reconnectTimer = [t \in Transports |-> "unset"]
    /\ timerDelay = [t \in Transports |-> 0]
    /\ pingTimer = [t \in Transports |-> FALSE]
    /\ onErrorCallback = [t \in Transports |-> FALSE]
    /\ wired = [t \in Transports |-> FALSE]
    /\ runPc = [t \in Transports |-> "idle"]
    /\ autoReconnect = [t \in Transports |-> TRUE]
    /\ mmRunning = FALSE
    /\ mmWs = 0
    /\ currentMarket = NoMarket
    /\ wsConnected = FALSE
    /\ onBookCallbacks = <<>>
    /\ mmPc = "idle"
    /\ mmStops = 0
    /\ gamma = NoResolution
    /\ wait = NoWait
    /\ onMarketChangeCallbacks = <<>>
    /\ fcRunning = FALSE
    /\ fcPc = "idle"
    /\ priceHistory = [up |-> <<>>, down |-> <<>>]
    /\ submitted = [up |-> 0, down |-> 0]
    /\ appended = [up |-> <<>>, down |-> <<>>]
    /\ order = NoOrder
    /\ now = 0
    /\ waitStart = 0
    /\ fcStopCalled = FALSE
    /\ ev = NoEv
    /\ delivered = <<>>
    /\ stopRequested = [t \in Transports |-> FALSE]
    /\ subsAtLoss = [t \in Transports |-> {}]
    /\ lostOnce = [t \in Transports |-> FALSE]
    /\ callerSubscribed = [t \in Transports |-> FALSE]
    /\ deferred = [t \in Transports |-> {}]

DefaultConfig == [size |-> 5000, dropThreshold |-> 300, priceLookbackSeconds |-> 10]

(* ------------- Spec: one MarketWebSocket driven by its caller ---------- *)
BookMsg(a, bids, asks) == Msg(TRUE, "book", a, bids, asks, TRUE)

\* the messages the peer sends in the lifecycle specification
LifecycleFeed ==
    {BookMsg(1, <<Level("0.40", "10")>>, <<Level("0.44", "10")>>),
     Msg(TRUE, "other", 0, <<>>, <<>>, TRUE)}

Init ==
    /\ InitWith({1})
    /\ config = DefaultConfig

Next ==
    \/ OnError(1)
    \/ \E auto \in BOOLEAN : Run(1, auto)
    \/ Open(1)
    \/ ConnectFail(1)
    \/ ErrorEvent(1)
    \/ Close(1)
    \/ TimerFire(1)
    \/ Stop(1)
    \/ Disconnect(1)
    \/ \E ids \in SUBSET Assets, replace \in BOOLEAN : Subscribe(1, ids, replace)
    \/ \E m \in LifecycleFeed : HandleMessage(1, m)

Spec == Init /\ [][Next]_vars

\* the timer the loop arms fires, and a pending handshake ends one way or the other
FairSpec ==
    /\ Spec
    /\ WF_vars(TimerFire(1))
    /\ WF_vars(Open(1) \/ ConnectFail(1))

(* ----------------------------- MarketManager --------------------------- *)
\* onBookUpdate(callback): this.onBookCallbacks.push(callback)
OnBookUpdate(l) ==
    /\ Len(onBookCallbacks) < MaxListeners
    /\ onBookCallbacks' = Append(onBookCallbacks, l)
    /\ ev' = Ev("onBookUpdate", 0, {}, TRUE, <<>>, <<>>, NoMsg)
    /\ delivered' = <<>>
    /\ UNCHANGED <<mmRunning, mmWs, currentMarket, wsConnected, mmPc, gamma, wait, mmStops,
                   onMarketChangeCallbacks>>
    /\ UNCHANGED <<trVars, fcVars, histVars>>

\* the transport a new MarketWebSocket() gets in this model
FreeTransports == {t \in Transports : ~created[t]}

NewTransport == CHOOSE t \in FreeTransports : \A u \in FreeTransports : t <= u

\* start() up to await this.discoverMarket()
StartCalled ==
    /\ mmPc = "idle"
    /\ FreeTransports # {}
    /\ mmRunning' = TRUE
    /\ mmPc' = "discovering"
    /\ mmStops' = 0
    /\ ev' = Ev("mmStart", 0, {}, TRUE, <<>>, <<>>, NoMsg)
    /\ delivered' = <<>>
    /\ UNCHANGED <<mmWs, currentMarket, wsConnected, onBookCallbacks, gamma, wait,
                   onMarketChangeCallbacks>>
    /\ UNCHANGED <<trVars, histVars>>

\* start() called by the manager's own caller
MmStart == StartCalled /\ UNCHANGED fcVars

\* a token list that leaves the down side out
TokenListUpOnly(market) == {market.up} \ {0}

\* Object.values(this.currentMarket.tokenIds)
TokenList(market) == {market.up, market.down} \ {0}

\* start() that returns false without this.running = false
StartNoMarketStaysRunning ==
    /\ mmPc = "discovering"
    /\ mmPc' = "idle"
    /\ ev' = Ev("mmStartDone", 0, {}, FALSE, <<>>, <<>>, NoMsg)
    /\ delivered' = <<>>
    /\ UNCHANGED <<mmRunning, mmWs, currentMarket, wsConnected, onBookCallbacks, gamma, wait,
                   mmStops,
                   onMarketChangeCallbacks>>
    /\ UNCHANGED <<trVars, histVars>>

\* discoverMarket() found nothing: this.running = false; return false
StartNoMarket ==
    /\ mmPc = "discovering"
    /\ mmRunning' = FALSE
    /\ mmPc' = "idle"
    /\ ev' = Ev("mmStartDone", 0, {}, FALSE, <<>>, <<>>, NoMsg)
    /\ delivered' = <<>>
    /\ UNCHANGED <<mmWs, currentMarket, wsConnected, onBookCallbacks, gamma, wait, mmStops,
                   onMarketChangeCallbacks>>
    /\ UNCHANGED <<trVars, histVars>>

\* the same, the caller not being the strategy
MmStartNoMarket == StartNoMarket /\ UNCHANGED fcVars

\* discoverMarket() threw (unsupported coin, JSON.parse of a metadata field):
\* start() rejects where it stands
StartThrows ==
    /\ mmPc = "discovering"
    /\ mmPc' = "idle"
    /\ ev' = Ev("mmStartThrew", 0, {}, FALSE, <<>>, <<>>, NoMsg)
    /\ delivered' = <<>>
    /\ UNCHANGED <<mmRunning, mmWs, currentMarket, wsConnected, onBookCallbacks, gamma, wait, mmStops,
                   onMarketChangeCallbacks>>
    /\ UNCHANGED <<trVars, histVars>>

\* the same, the caller not being the strategy
MmStartThrows == StartThrows /\ UNCHANGED fcVars

\* discoverMarket() returned a market: setupWebSocket() builds a transport, hooks
\* the three callbacks and subscribes the token list with replace; then
\* this.ws.run(true) starts in the background and start() returns true
StartMarket(market) ==
    /\ mmPc = "discovering"
    /\ LET t == NewTransport
       IN  /\ currentMarket' = market
           /\ mmWs' = t
           /\ mmPc' = "idle"
           /\ created' = [created EXCEPT ![t] = TRUE]
           /\ wired' = [wired EXCEPT ![t] = TRUE]
           /\ subscribedAssets' = [subscribedAssets EXCEPT ![t] =
                                     IF TokenList(market) # {}
                                     THEN SubscribedAfter(t, TokenList(market), TRUE)
                                     ELSE @]
           /\ wsRunning' = [wsRunning EXCEPT ![t] = TRUE]
           /\ autoReconnect' = [autoReconnect EXCEPT ![t] = TRUE]
           /\ ws' = [ws EXCEPT ![t] = TRUE]
           /\ sockState' = [sockState EXCEPT ![t] = "connecting"]
           /\ runPc' = [runPc EXCEPT ![t] = "connecting"]
           /\ ev' = Ev("mmStartDone", t, TokenList(market), TRUE, <<>>, <<>>, NoMsg)
    /\ delivered' = <<>>
    /\ UNCHANGED <<mmRunning, wsConnected, onBookCallbacks, gamma, wait, mmStops,
                   onMarketChangeCallbacks>>
    /\ UNCHANGED <<orderbooks, reconnectTimer, timerDelay, pingTimer, onErrorCallback>>
    /\ UNCHANGED histVars

\* the same, the caller not being the strategy
MmStartMarket(market) == StartMarket(market) /\ UNCHANGED fcVars

\* stop() without the if (this.ws): disconnect() of undefined throws
MmStopUnguarded ==
    /\ mmRunning' = FALSE
    /\ mmStops' = IF mmStops < 2 THEN mmStops + 1 ELSE 2
    /\ IF mmWs # 0
       THEN /\ DisconnectFields(mmWs)
            /\ mmWs' = 0
            /\ wsConnected' = FALSE
            /\ ev' = Ev("mmStop", mmWs, {}, TRUE, <<>>, <<>>, NoMsg)
       ELSE /\ UNCHANGED <<wsRunning, pingTimer, reconnectTimer, sockState, ws,
                           stopRequested, mmWs, wsConnected>>
            /\ ev' = Ev("mmStop", 0, {}, FALSE, <<>>, <<>>, NoMsg)
    /\ delivered' = <<>>
    /\ UNCHANGED <<currentMarket, onBookCallbacks, gamma, wait, mmPc,
                   onMarketChangeCallbacks>>
    /\ UNCHANGED <<created, subscribedAssets, orderbooks, timerDelay, onErrorCallback,
                   wired, runPc, autoReconnect>>
    /\ UNCHANGED <<fcVars, subsAtLoss, lostOnce, callerSubscribed, deferred>>

\* a stop() that also forgets the market it was started for
StopCalledForgetsMarket ==
    /\ mmRunning' = FALSE
    /\ mmStops' = IF mmStops < 2 THEN mmStops + 1 ELSE 2
    /\ IF mmWs # 0
       THEN DisconnectFields(mmWs)
       ELSE UNCHANGED <<wsRunning, pingTimer, reconnectTimer, sockState, ws,
                        stopRequested>>
    /\ mmWs' = 0
    /\ wsConnected' = FALSE
    /\ ev' = Ev("mmStop", mmWs, {}, TRUE, <<>>, <<>>, NoMsg)
    /\ delivered' = <<>>
    /\ currentMarket' = NoMarket
    /\ UNCHANGED <<onBookCallbacks, gamma, wait, mmPc,
                   onMarketChangeCallbacks>>
    /\ UNCHANGED <<created, subscribedAssets, orderbooks, timerDelay, onErrorCallback,
                   wired, runPc, autoReconnect>>
    /\ UNCHANGED <<subsAtLoss, lostOnce, callerSubscribed, deferred>>

\* stop(): this.running = false; disconnect and drop the transport if there is
\* one; this.wsConnected = false
StopCalled ==
    /\ mmRunning' = FALSE
    /\ mmStops' = IF mmStops < 2 THEN mmStops + 1 ELSE 2
    /\ IF mmWs # 0
       THEN DisconnectFields(mmWs)
       ELSE UNCHANGED <<wsRunning, pingTimer, reconnectTimer, sockState, ws,
                        stopRequested>>
    /\ mmWs' = 0
    /\ wsConnected' = FALSE
    /\ ev' = Ev("mmStop", mmWs, {}, TRUE, <<>>, <<>>, NoMsg)
    /\ delivered' = <<>>
    /\ UNCHANGED <<currentMarket, onBookCallbacks, gamma, wait, mmPc,
                   onMarketChangeCallbacks>>
    /\ UNCHANGED <<created, subscribedAssets, orderbooks, timerDelay, onErrorCallback,
                   wired, runPc, autoReconnect>>
    /\ UNCHANGED <<subsAtLoss, lostOnce, callerSubscribed, deferred>>

\* stop() called by the manager's own caller
MmStop == StopCalled /\ UNCHANGED fcVars

\* onMarketChange(callback): this.onMarketChangeCallbacks.push(callback);
\* nothing in the class reads the list
OnMarketChange(l) ==
    /\ Len(onMarketChangeCallbacks) < MaxListeners
    /\ onMarketChangeCallbacks' = Append(onMarketChangeCallbacks, l)
    /\ ev' = Ev("onMarketChange", 0, {}, TRUE, <<>>, <<>>, NoMsg)
    /\ delivered' = <<>>
    /\ UNCHANGED <<mmRunning, mmWs, currentMarket, wsConnected, onBookCallbacks, mmPc,
                   mmStops, gamma, wait>>
    /\ UNCHANGED <<trVars, fcVars, histVars>>

(* ------------ SessionSpec: a MarketManager driven by its caller -------- *)
ProbeListeners == {"ok", "throw", "reject"}

\* what getMarketInfo can return: both sides, one side, or no token id
Markets ==
    {[defined |-> TRUE, up |-> u, down |-> d] :
        u \in {0, 1}, d \in {0} \cup (Assets \ {1})}

\* the messages the peer sends in the session specification
SessionFeed ==
    {BookMsg(1, <<Level("0.40", "10")>>, <<Level("0.44", "10")>>),
     BookMsg(NumAssets, <<>>, <<Level("0.30", "10")>>)}

SessionInit ==
    /\ InitWith({})
    /\ config = DefaultConfig

\* the socket events of the transports the manager made
SocketEvent(t) ==
    \/ Open(t)
    \/ ConnectFail(t)
    \/ ErrorEvent(t)
    \/ Close(t)
    \/ TimerFire(t)
    \/ \E m \in SessionFeed : HandleMessage(t, m)

SessionNext ==
    \/ MmStart
    \/ MmStartNoMarket
    \/ MmStartThrows
    \/ \E market \in Markets : MmStartMarket(market)
    \/ MmStop
    \/ \E t \in Transports : SocketEvent(t)

SessionSpec == SessionInit /\ [][SessionNext]_vars

\* a socket whose close() was called closes
CloseRequested(t) == sockState[t] = "closing" /\ Close(t)

FairSessionSpec ==
    /\ SessionSpec
    /\ \A t \in Transports :
          /\ WF_vars(TimerFire(t))
          /\ WF_vars(Open(t) \/ ConnectFail(t))
          /\ WF_vars(CloseRequested(t))

(* ------ FanOutSpec: listeners on a MarketManager that is started once -- *)
MmStartOnce == (\A t \in Transports : ~created[t]) /\ MmStart

FanOutNext ==
    \/ \E l \in ProbeListeners : OnBookUpdate(l)
    \/ MmStartOnce
    \/ MmStartNoMarket
    \/ MmStartThrows
    \/ \E market \in Markets : MmStartMarket(market)
    \/ MmStop
    \/ \E t \in Transports : SocketEvent(t)

FanOutSpec == SessionInit /\ [][FanOutNext]_vars

(* ----- BookSpec: the feed of a connected MarketWebSocket and its store -- *)
\* two books per key that share no level, and one message of every other kind
BookFeed ==
    {BookMsg(a, <<Level("0.40", "10")>>, <<Level("0.44", "10")>>) : a \in Keys}
    \cup {BookMsg(a, <<Level("0.25", "25"), Level("0.30", "10")>>, <<>>) : a \in Keys}
    \cup {Msg(FALSE, "none", 0, <<>>, <<>>, TRUE),
          Msg(TRUE, "book", 1, <<>>, <<>>, FALSE),
          Msg(TRUE, "price_change", 1, <<>>, <<>>, TRUE),
          Msg(TRUE, "price_change", 1, <<>>, <<>>, FALSE),
          Msg(TRUE, "last_trade_price", 1, <<>>, <<>>, TRUE),
          Msg(TRUE, "other", 1, <<>>, <<>>, TRUE)}

BookNext ==
    \/ OnError(1)
    \/ Run(1, TRUE)
    \/ Open(1)
    \/ \E ids \in SUBSET Assets, replace \in BOOLEAN : Subscribe(1, ids, replace)
    \/ \E m \in BookFeed : HandleMessage(1, m)

BookSpec == Init /\ [][BookNext]_vars

(* --------------------------- FlashCrashStrategy ------------------------ *)
\* milliseconds of a number of clock units
Ms(units) == units * 5000

Min(a, b) == IF a < b THEN a ELSE b

NoCrash == [detected |-> FALSE, oldPrice |-> 0, newPrice |-> 0]

\* a detection that needs the drop to exceed the threshold
detectFlashCrashStrict(side) ==
    LET history == priceHistory[side]
        n == Len(history)
        inWindow == {i \in 1..(n - 1) :
                        Ms(now - history[i].timestamp) <= config.priceLookbackSeconds * 1000}
    IN  IF n < 2 \/ inWindow = {} THEN NoCrash
        ELSE LET i == CHOOSE j \in inWindow : \A k \in inWindow : k <= j
             IN  IF history[i].price - history[n].price > config.dropThreshold
                 THEN [detected |-> TRUE, oldPrice |-> history[i].price,
                       newPrice |-> history[n].price]
                 ELSE NoCrash

\* detectFlashCrash(side): the newest sample before the last one that is no
\* older than the lookback is the reference
detectFlashCrash(side) ==
    LET history == priceHistory[side]
        n == Len(history)
        lookbackMs == config.priceLookbackSeconds * 1000
        inWindow == {i \in 1..(n - 1) : Ms(now - history[i].timestamp) <= lookbackMs}
    IN  IF n < 2 \/ inWindow = {} THEN NoCrash
        ELSE LET i == CHOOSE j \in inWindow : \A k \in inWindow : k <= j
                 oldPrice == history[i].price
                 currentPrice == history[n].price
             IN  IF oldPrice - currentPrice >= config.dropThreshold
                 THEN [detected |-> TRUE, oldPrice |-> oldPrice, newPrice |-> currentPrice]
                 ELSE NoCrash

\* placeOrder arguments whose limit price has no ceiling
OrderForNoCap(side, newPrice) ==
    [tokenId   |-> currentMarket[side],
     price     |-> newPrice + 20,
     size      |-> IF newPrice = 0 THEN Infinity ELSE (config.size * 1000) \div newPrice,
     orderSide |-> "BUY",
     side      |-> side]

\* the arguments of this.bot.placeOrder(tokenId, min(p + 0.02, 0.99), size / p, 'BUY')
OrderFor(side, newPrice) ==
    [tokenId   |-> currentMarket[side],
     price     |-> Min(newPrice + 20, 990),
     size      |-> IF newPrice = 0 THEN Infinity ELSE (config.size * 1000) \div newPrice,
     orderSide |-> "BUY",
     side      |-> side]

\* an onTick with a one-shot guard: no second order for the same drop
RECURSIVE FirstOrderOnce(_)
FirstOrderOnce(sides) ==
    IF sides = <<>> THEN NoOrder
    ELSE LET crash == detectFlashCrash(sides[1])
         IN  IF crash.detected /\ currentMarket[sides[1]] # 0 /\ submitted[sides[1]] = 0
             THEN OrderFor(sides[1], crash.newPrice)
             ELSE FirstOrderOnce(Tail(sides))

\* onTick's for loop over the sides that are left, up to its first placeOrder
RECURSIVE FirstOrder(_)
FirstOrder(sides) ==
    IF sides = <<>> THEN NoOrder
    ELSE LET crash == detectFlashCrash(sides[1])
         IN  IF crash.detected /\ currentMarket[sides[1]] # 0
             THEN OrderFor(sides[1], crash.newPrice)
             ELSE FirstOrder(Tail(sides))

\* MarketManager.getOrderbook(side) is defined
getOrderbook(side) ==
    /\ mmWs # 0
    /\ currentMarket.defined
    /\ currentMarket[side] # 0
    /\ currentMarket[side] \in DOMAIN orderbooks[mmWs]

\* run() has settled an await and its continuation is the next thing to run
Pending == fcPc = "exit"

\* run() up to await this.market.start(), which is start() up to its own await
FcRun ==
    /\ fcPc = "idle"
    /\ StartCalled
    /\ fcPc' = "starting"
    /\ fcStopCalled' = FALSE
    /\ UNCHANGED <<fcRunning, priceHistory, submitted, appended, config, order, now, waitStart>>

\* start() returned false: run() logs and returns, the finally block is next
FcStartNoMarket ==
    /\ fcPc = "starting"
    /\ StartNoMarket
    /\ fcPc' = "exit"
    /\ UNCHANGED <<fcRunning, priceHistory, submitted, appended, config, order, now, waitStart, fcStopCalled>>

\* start() rejected: the catch block logs, the finally block is next
FcStartThrows ==
    /\ fcPc = "starting"
    /\ StartThrows
    /\ fcPc' = "exit"
    /\ UNCHANGED <<fcRunning, priceHistory, submitted, appended, config, order, now, waitStart, fcStopCalled>>

\* start() returned true: waitForData(5.0) notes the time, finds wsConnected
\* false (the socket was made in this very turn) and sleeps
FcStartMarket(market) ==
    /\ fcPc = "starting"
    /\ StartMarket(market)
    /\ fcPc' = "waiting"
    /\ waitStart' = now
    /\ UNCHANGED <<fcRunning, priceHistory, submitted, appended, config, order, now, fcStopCalled>>

\* one pass of while (this.running): getCurrentPrices() and onTick() up to the
\* first placeOrder, or to the 100 ms sleep when nothing is ordered
TickFrom(sides) ==
    /\ order' = FirstOrder(sides)
    /\ fcPc' = IF FirstOrder(sides) = NoOrder THEN "sleep" ELSE "order"
    /\ submitted' = IF FirstOrder(sides) = NoOrder THEN submitted
                    ELSE [submitted EXCEPT ![FirstOrder(sides).side] = Min(@ + 1, 2)]

\* a poll of waitForData that ends it, with data or by timeout; run() then
\* registers handleBookUpdate, sets this.running = true and makes its first tick
FcWaitPoll ==
    /\ fcPc = "waiting"
    /\ LET inTime  == Ms(now - waitStart) < 5000
           hasData == wsConnected /\ (getOrderbook("up") \/ getOrderbook("down"))
       IN  /\ ~inTime \/ hasData
           /\ ev' = Ev("tick", mmWs, {}, inTime /\ hasData, <<>>, <<>>, NoMsg)
    /\ onBookCallbacks' = Append(onBookCallbacks, StrategyListener)
    /\ fcRunning' = TRUE
    /\ TickFrom(<<"up", "down">>)
    /\ delivered' = <<>>
    /\ UNCHANGED <<mmRunning, mmWs, currentMarket, wsConnected, mmPc, gamma, wait, mmStops,
                   onMarketChangeCallbacks>>
    /\ UNCHANGED <<priceHistory, appended, config, now, waitStart, fcStopCalled>>
    /\ UNCHANGED <<trVars, histVars>>

\* a loop that calls onTick without awaiting it: the next tick starts while
\* the order of the last one is still out
FcSleepDoneNoAwait ==
    /\ fcPc \in {"sleep", "order"}
    /\ IF fcRunning
       THEN /\ TickFrom(<<"up", "down">>)
            /\ ev' = Ev("tick", mmWs, {}, TRUE, <<>>, <<>>, NoMsg)
       ELSE /\ fcPc' = "exit"
            /\ order' = NoOrder
            /\ UNCHANGED submitted
            /\ ev' = Ev("loopExit", mmWs, {}, TRUE, <<>>, <<>>, NoMsg)
    /\ delivered' = <<>>
    /\ UNCHANGED <<fcRunning, priceHistory, appended, config, now, waitStart, fcStopCalled>>
    /\ UNCHANGED <<trVars, mmVars, histVars>>

\* the 100 ms sleep is over: while (this.running) is tested, the next tick
\* starts or the loop is left for the finally block
FcSleepDone ==
    /\ fcPc = "sleep"
    /\ IF fcRunning
       THEN /\ TickFrom(<<"up", "down">>)
            /\ ev' = Ev("tick", mmWs, {}, TRUE, <<>>, <<>>, NoMsg)
       ELSE /\ fcPc' = "exit"
            /\ order' = NoOrder
            /\ UNCHANGED submitted
            /\ ev' = Ev("loopExit", mmWs, {}, TRUE, <<>>, <<>>, NoMsg)
    /\ delivered' = <<>>
    /\ UNCHANGED <<fcRunning, priceHistory, appended, config, now, waitStart, fcStopCalled>>
    /\ UNCHANGED <<trVars, mmVars, histVars>>

\* what placeOrder can do: resolve with success, resolve with success false
\* (signing or posting failed inside its try), or reject (requireSigner threw)
OrderResults == {"ok", "failed", "threw"}

\* placeOrder settled: onTick goes on with the sides that are left, or the
\* rejection reaches run()'s catch block
FcOrderDone(result) ==
    /\ fcPc = "order"
    /\ IF result = "threw"
       THEN /\ fcPc' = "exit"
            /\ order' = NoOrder
            /\ UNCHANGED submitted
       ELSE TickFrom(IF order.side = "up" THEN <<"down">> ELSE <<>>)
    /\ ev' = Ev("orderDone", mmWs, {}, result = "ok", <<>>, <<>>, NoMsg)
    /\ delivered' = <<>>
    /\ UNCHANGED <<fcRunning, priceHistory, submitted, appended, config, now, waitStart, fcStopCalled>>
    /\ UNCHANGED <<trVars, mmVars, histVars>>

\* finally { await this.market.stop() }
FcFinally ==
    /\ fcPc = "exit"
    /\ StopCalled
    /\ fcPc' = "done"
    /\ UNCHANGED <<fcRunning, priceHistory, submitted, appended, config, order, now, waitStart, fcStopCalled>>

\* stop(): this.running = false
FcStop ==
    /\ fcRunning' = FALSE
    /\ fcStopCalled' = (fcStopCalled \/ fcPc # "idle")
    /\ ev' = Ev("fcStop", 0, {}, TRUE, <<>>, <<>>, NoMsg)
    /\ delivered' = <<>>
    /\ UNCHANGED <<fcPc, priceHistory, submitted, appended, config, order, now, waitStart>>
    /\ UNCHANGED <<trVars, mmVars, histVars>>

(* ------- StrategySpec: a FlashCrashStrategy that is run once ----------- *)
\* books whose mid prices are 0.60 and 0.25, for either side
StrategyFeed ==
    {BookMsg(a, <<Level(p, "10")>>, <<Level(p, "10")>>) :
        a \in {1, NumAssets}, p \in {"0.60", "0.25"}}

\* the histories hold at most MaxHistory samples a side
FeedRoom(m) ==
    IF Len(onBookCallbacks) = 0 \/ getSideForToken(m.asset_id) = "none" THEN TRUE
    ELSE Len(priceHistory[getSideForToken(m.asset_id)]) < MaxHistory

\* Date.now() moves on
Advance ==
    /\ now < MaxNow
    /\ ~Pending
    /\ now' = now + 1
    /\ ev' = Ev("clock", 0, {}, TRUE, <<>>, <<>>, NoMsg)
    /\ delivered' = <<>>
    /\ UNCHANGED <<fcRunning, fcPc, priceHistory, submitted, appended, config, order, waitStart, fcStopCalled>>
    /\ UNCHANGED <<trVars, mmVars, histVars>>

StrategySocketEvent(t) ==
    /\ ~Pending
    /\ \/ Open(t)
       \/ ConnectFail(t)
       \/ Close(t)
       \/ TimerFire(t)
       \/ \E m \in StrategyFeed : FeedRoom(m) /\ HandleMessage(t, m)

StrategyNext ==
    \/ FcRun
    \/ FcStartNoMarket
    \/ FcStartThrows
    \/ \E market \in Markets : FcStartMarket(market)
    \/ FcWaitPoll
    \/ FcSleepDone
    \/ \E result \in OrderResults : FcOrderDone(result)
    \/ FcFinally
    \/ FcStop
    \/ Advance
    \/ \E t \in Transports : StrategySocketEvent(t)

StrategySpec == SessionInit /\ [][StrategyNext]_vars

(* ---- DetectSpec: ticks of a running strategy over fed price samples --- *)
\* --drop and --lookback of the command line: a drop of 0.35 is above, at and
\* below the threshold, and a lookback of 5 s is one clock unit
Configs ==
    {[size |-> 5000, dropThreshold |-> d, priceLookbackSeconds |-> l] :
        d \in {300, 350, 400}, l \in {5, 10}}

\* a market with both token ids
BothSides == [defined |-> TRUE, up |-> 1, down |-> NumAssets]

\* books whose mid prices are 0.60 and 0.25, for either side
DetectFeed ==
    {BookMsg(a, <<Level(p, "10")>>, <<Level(p, "10")>>) :
        a \in {1, NumAssets}, p \in {"0.60", "0.25"}}

\* the histories hold at most MaxSamples samples a side
SampleRoom(m) ==
    IF Len(onBookCallbacks) = 0 THEN TRUE
    ELSE Len(priceHistory[getSideForToken(m.asset_id)]) < MaxSamples

DetectInit ==
    /\ InitWith({})
    /\ config \in Configs

DetectNext ==
    \/ FcRun
    \/ FcStartMarket(BothSides)
    \/ Open(1)
    \/ \E m \in DetectFeed : SampleRoom(m) /\ HandleMessage(1, m)
    \/ FcWaitPoll
    \/ FcSleepDone
    \/ \E result \in OrderResults : FcOrderDone(result)
    \/ FcFinally
    \/ Advance

DetectSpec == DetectInit /\ [][DetectNext]_vars

(* ---- OrderSpec: the orders of a strategy that fires on small drops ----- *)
\* --size and --drop of the command line: a drop of 0.01 fires
OrderConfigs ==
    {[size |-> n, dropThreshold |-> 10, priceLookbackSeconds |-> 10] :
        n \in {5000, 1000}}

\* up books at 0.99, 0.98 and 0.25, down books at 0.60 and 0.25
OrderFeed ==
    {BookMsg(1, <<Level(p, "10")>>, <<Level(p, "10")>>) : p \in {"0.99", "0.98", "0.25"}}
    \cup {BookMsg(NumAssets, <<Level(p, "10")>>, <<Level(p, "10")>>) :
             p \in {"0.60", "0.25"}}

OrderInit ==
    /\ InitWith({})
    /\ config \in OrderConfigs

OrderNext ==
    \/ FcRun
    \/ FcStartMarket(BothSides)
    \/ Open(1)
    \/ \E m \in OrderFeed : FeedRoom(m) /\ HandleMessage(1, m)
    \/ FcWaitPoll
    \/ FcSleepDone
    \/ \E result \in OrderResults : FcOrderDone(result)
    \/ FcFinally
    \/ Advance

OrderSpec == OrderInit /\ [][OrderNext]_vars

(* ---- CapSpec: one side's history filled past its capacity ------------- *)
\* markets in which instrument 1 is the up token, or the down token
OneSided ==
    {[defined |-> TRUE, up |-> 1, down |-> 0], [defined |-> TRUE, up |-> 0, down |-> 1]}

CapFeed == {BookMsg(1, <<Level("0.40", "10")>>, <<Level("0.44", "10")>>)}

\* the feed hands at most MaxAppends samples to a side
AppendRoom(m) ==
    IF getSideForToken(m.asset_id) = "none" THEN TRUE
    ELSE Len(appended[getSideForToken(m.asset_id)]) < MaxAppends

\* Date.now() moves on once, so that early samples differ from late ones
CapAdvance == now = 0 /\ Advance

CapNext ==
    \/ FcRun
    \/ \E market \in OneSided : FcStartMarket(market)
    \/ Open(1)
    \/ \E m \in CapFeed : AppendRoom(m) /\ HandleMessage(1, m)
    \/ FcWaitPoll
    \/ CapAdvance

CapSpec == SessionInit /\ [][CapNext]_vars

(* ----------------------- GammaClient (gamma.ts) ------------------------ *)
\* 15-minute windows whose seconds the clock is read in
MaxWindows == 4

WindowSeconds == 900

\* COIN_SLUGS: the slug prefix of a supported coin, "" for any other key
COIN_SLUGS(coinUpper) ==
    CASE coinUpper = "BTC" -> "btc-updown-15m"
      [] coinUpper = "ETH" -> "eth-updown-15m"
      [] coinUpper = "SOL" -> "sol-updown-15m"
      [] coinUpper = "XRP" -> "xrp-updown-15m"
      [] OTHER -> ""

\* String.prototype.toUpperCase on the coins that are passed
toUpperCase(coin) ==
    CASE coin = "btc" -> "BTC"
      [] coin = "eth" -> "ETH"
      [] coin = "doge" -> "DOGE"
      [] OTHER -> coin

Coins == {"BTC", "btc", "eth", "DOGE"}

\* what the clock reads, in seconds since the epoch: the first, second,
\* middle and last second of each window
ClockSeconds ==
    UNION {{w * WindowSeconds, w * WindowSeconds + 1, w * WindowSeconds + 899,
            w * WindowSeconds + 450} : w \in 1..MaxWindows}

\* offsets of the local time zone from UTC, in seconds (UTC, +5:30, +5:45,
\* -3:30): Date.getMinutes and Date.setMinutes work in local time
ZoneOffsets == {0, 19800, 20700, 0 - 12600}

\* now.getMinutes()
getMinutes(t, offset) == ((t + offset) % 3600) \div 60

\* currentTs: the clock with its local minutes set to the quarter they are in
\* and its seconds set to 0
CurrentTs(t, offset) ==
    LET minute == (getMinutes(t, offset) \div 15) * 15
    IN  (t - ((t + offset) % 3600)) + minute * 60

CandidatesPreviousFirst(currentTs) ==
    <<currentTs, currentTs - WindowSeconds, currentTs + WindowSeconds>>

\* the window starts looked up, in the order of the lookups
Candidates(currentTs) ==
    <<currentTs, currentTs + WindowSeconds, currentTs - WindowSeconds>>

Slug(prefix, ts) == [prefix |-> prefix, ts |-> ts]

\* what getMarketBySlug resolves to: a market accepting orders, a market not
\* accepting them, no body, or null after the request failed
LookupAnswers == {"accepting", "closed", "empty", "failed"}

\* market && market.acceptingOrders
Tradable(answer) == answer = "accepting"

\* getCurrent15mMarket up to its first await: an unsupported coin throws
\* before any lookup, a supported one issues the lookup of the current window
GetCurrent15mMarket(coin, t, offset) ==
    /\ gamma.pc # "lookup"
    /\ LET prefix == COIN_SLUGS(toUpperCase(coin))
       IN  gamma' =
               IF prefix = ""
               THEN [pc |-> "threw", coin |-> coin, now |-> t, lookups |-> <<>>,
                     answers |-> <<>>, result |-> NoWindow]
               ELSE [pc |-> "lookup", coin |-> coin, now |-> t,
                     lookups |-> <<Slug(prefix, Candidates(CurrentTs(t, offset))[1])>>,
                     answers |-> <<>>, result |-> NoWindow]
    /\ UNCHANGED <<trVars, mmRunning, mmWs, currentMarket, wsConnected, onBookCallbacks,
                   mmPc, mmStops, wait, fcVars, ev, delivered, histVars,
                   onMarketChangeCallbacks>>

\* a lookup settles: a tradable market is returned; otherwise the next window
\* is looked up, and null is returned after the third
LookupDone(answer) ==
    /\ gamma.pc = "lookup"
    /\ LET n == Len(gamma.lookups)
           last == gamma.lookups[n]
           currentTs == gamma.lookups[1].ts
           answers == Append(gamma.answers, answer)
       IN  gamma' =
               IF Tradable(answer)
               THEN [gamma EXCEPT !.pc = "done", !.answers = answers,
                                  !.result = [found |-> TRUE, window |-> last.ts]]
               ELSE IF n < Len(Candidates(currentTs))
               THEN [gamma EXCEPT !.answers = answers,
                                  !.lookups = Append(@, Slug(last.prefix,
                                                   Candidates(currentTs)[n + 1]))]
               ELSE [gamma EXCEPT !.pc = "done", !.answers = answers,
                                  !.result = NoWindow]
    /\ UNCHANGED <<trVars, mmRunning, mmWs, currentMarket, wsConnected, onBookCallbacks,
                   mmPc, mmStops, wait, fcVars, ev, delivered, histVars,
                   onMarketChangeCallbacks>>

ResolverNext ==
    \/ \E coin \in Coins, t \in ClockSeconds, offset \in ZoneOffsets :
           GetCurrent15mMarket(coin, t, offset)
    \/ \E answer \in LookupAnswers : LookupDone(answer)

ResolverSpec == SessionInit /\ [][ResolverNext]_vars

(* ------------------- MarketManager.waitForData ------------------------- *)
\* this.getOrderbook('up') || this.getOrderbook('down')
HasBook == getOrderbook("up") \/ getOrderbook("down")

HasDataAnyBook == HasBook

\* the test one poll of waitForData makes
HasData == wsConnected /\ HasBook

\* timeout * 1000 for the timeouts that are passed: 0 and the default 5.0
WaitTimeouts == {0, 5000}

\* one pass of the while loop of waitForData, the clock reading `now`: the
\* loop ends with false when the timeout has elapsed, returns true when the
\* test succeeds, and sleeps 100 ms otherwise.  sawBook and sawData record
\* what the passes made in time have found.
PollOf(w) ==
    IF ~(Ms(now - w.start) < w.timeout)
    THEN [w EXCEPT !.pc = "done", !.ret = FALSE]
    ELSE LET seen == [w EXCEPT !.sawBook = @ \/ HasBook,
                               !.sawData = @ \/ (wsConnected /\ HasBook)]
         IN  IF HasData
             THEN [seen EXCEPT !.pc = "done", !.ret = TRUE]
             ELSE [seen EXCEPT !.pc = "polling"]

\* waitForData(timeout) up to its first sleep or its return
WaitForData(timeout) ==
    /\ wait.pc # "polling"
    /\ wait' = PollOf([NoWait EXCEPT !.start = now, !.timeout = timeout])
    /\ ev' = Ev("waitForData", mmWs, {}, wait'.ret, <<>>, <<>>, NoMsg)
    /\ delivered' = <<>>
    /\ UNCHANGED <<mmRunning, mmWs, currentMarket, wsConnected, onBookCallbacks, mmPc,
                   mmStops, gamma,
                   onMarketChangeCallbacks>>
    /\ UNCHANGED <<trVars, fcVars, histVars>>

\* the 100 ms sleep is over: the next pass
WaitPoll ==
    /\ wait.pc = "polling"
    /\ wait' = PollOf(wait)
    /\ ev' = Ev("waitPoll", mmWs, {}, wait'.ret, <<>>, <<>>, NoMsg)
    /\ delivered' = <<>>
    /\ UNCHANGED <<mmRunning, mmWs, currentMarket, wsConnected, onBookCallbacks, mmPc,
                   mmStops, gamma,
                   onMarketChangeCallbacks>>
    /\ UNCHANGED <<trVars, fcVars, histVars>>

\* one session, its socket events, the clock, and a caller that waits for data
WaitNext ==
    \/ MmStartOnce
    \/ MmStartNoMarket
    \/ MmStartThrows
    \/ \E market \in Markets : MmStartMarket(market)
    \/ MmStop
    \/ \E t \in Transports : SocketEvent(t)
    \/ \E timeout \in WaitTimeouts : WaitForData(timeout)
    \/ WaitPoll
    \/ Advance

WaitSpec == SessionInit /\ [][WaitNext]_vars

(* ------------- RolloverSpec: sessions, the clock and the feed ---------- *)
\* start() and stop() called again and again while time passes, sockets open
\* and close, books arrive and market-change listeners are registered
RolloverFeed == {BookMsg(1, <<Level("0.40", "10")>>, <<Level("0.44", "10")>>)}

\* the first registration of a market-change listener
OnMarketChangeOnce == onMarketChangeCallbacks = <<>> /\ OnMarketChange("ok")

RolloverNext ==
    \/ MmStart
    \/ MmStartNoMarket
    \/ \E market \in Markets : MmStartMarket(market)
    \/ MmStop
    \/ OnMarketChangeOnce
    \/ CapAdvance
    \/ \E t \in Transports :
           \/ Open(t)
           \/ Close(t)
           \/ TimerFire(t)
           \/ \E m \in RolloverFeed : HandleMessage(t, m)

RolloverSpec == SessionInit /\ [][RolloverNext]_vars

(* ------------- DecodeSpec: what a transport makes of the feed --------- *)
\* levels a side of a book message carries
MaxLevels == 2

\* levels as the feed writes them: two prices, one of them twice, a price and
\* a size that are no numbers, and the prices 0 and 1
DecodeLevels ==
    {Level("0.40", "10"), Level("0.30", "25"), Level("0.40", "25"), Level("abc", "10"),
     Level("0.30", ""), Level("0", "10"), Level("1", "10")}

LevelLists == SeqsUpTo(DecodeLevels, MaxLevels)

\* text that is no JSON, a book whose bids are no array, and messages of other
\* kinds
OddFeed ==
    {Msg(FALSE, "none", 0, <<>>, <<>>, TRUE),
     Msg(TRUE, "book", 1, <<>>, <<>>, FALSE),
     Msg(TRUE, "price_change", 1, <<>>, <<>>, TRUE),
     Msg(TRUE, "last_trade_price", 1, <<>>, <<>>, TRUE),
     Msg(TRUE, "other", 1, <<>>, <<>>, TRUE),
     Msg(TRUE, "", 1, <<>>, <<>>, TRUE)}

\* books for the up token with one side filled in any order, or one level a
\* side; a book without asset_id; the odd messages
DecodeFeed ==
    {BookMsg(1, bids, <<>>) : bids \in LevelLists}
    \cup {BookMsg(1, <<>>, asks) : asks \in LevelLists}
    \cup {BookMsg(1, <<b>>, <<a>>) : b \in DecodeLevels, a \in DecodeLevels}
    \cup {BookMsg(0, <<Level("0.40", "10")>>, <<Level("abc", "10")>>)}
    \cup OddFeed

\* one transport, run and connected, and the feed
DecodeNext ==
    \/ Run(1, TRUE)
    \/ Open(1)
    \/ \E m \in DecodeFeed : HandleMessage(1, m)

DecodeSpec == Init /\ [][DecodeNext]_vars

(* ------- OddSpec: odd messages, an error callback and a listener ------- *)
OddSpecFeed ==
    OddFeed \cup {BookMsg(1, <<Level("0.40", "10")>>, <<Level("0.30", "25")>>),
                  BookMsg(NumAssets, <<>>, <<Level("0.30", "25")>>)}

\* a transport used on its own, with an error callback, next to a session
\* whose transport hands its books to a listener
OddInit ==
    /\ InitWith({MaxTransports})
    /\ config = DefaultConfig

OddStart ==
    /\ mmWs = 0
    /\ \A t \in Transports : created[t] <=> t = MaxTransports
    /\ MmStart

OnBookUpdateOnce == onBookCallbacks = <<>> /\ OnBookUpdate("ok")

OddNext ==
    \/ OnError(MaxTransports)
    \/ Run(MaxTransports, TRUE)
    \/ OddStart
    \/ MmStartMarket(BothSides)
    \/ OnBookUpdateOnce
    \/ \E t \in Transports : Open(t)
    \/ \E t \in Transports, m \in OddSpecFeed : HandleMessage(t, m)

OddSpec == OddInit /\ [][OddNext]_vars

(* ---------------- KeepaliveSpec: the ping interval --------------------- *)
\* the setInterval callback of startPing: a ping is sent when the socket is
\* open, nothing happens otherwise
PingTick(t) ==
    /\ created[t]
    /\ pingTimer[t]
    /\ ev' = Ev("ping", t, {}, isConnected(t), <<>>, <<>>, NoMsg)
    /\ delivered' = <<>>
    /\ UNCHANGED <<trVars, mmVars, fcVars, histVars>>

\* pingTimeout seconds pass after a ping with nothing coming back: no timer
\* was armed for it and no 'pong' handler is registered, pingTimeout is only
\* stored by the constructor
PongMissed(t) ==
    /\ ev.op = "ping"
    /\ ev.t = t
    /\ ev.ret
    /\ ev' = Ev("pongMissed", t, {}, TRUE, <<>>, <<>>, NoMsg)
    /\ delivered' = <<>>
    /\ UNCHANGED <<trVars, mmVars, fcVars, histVars>>

KeepaliveNext ==
    \/ Next
    \/ PingTick(1)
    \/ PongMissed(1)

KeepaliveSpec == Init /\ [][KeepaliveNext]_vars

(* ---- WriterSpec: every operation next to the store and the histories -- *)
\* books for the up token at two mid prices
WriterFeed ==
    {BookMsg(1, <<Level(p, "10")>>, <<Level(p, "10")>>) : p \in {"0.60", "0.25"}}

\* a transport used on its own, which its caller subscribes and disconnects,
\* next to a strategy that runs its session, ticks, orders and stops it
WriterNext ==
    \/ Run(MaxTransports, TRUE)
    \/ Disconnect(MaxTransports)
    \/ \E ids \in {{1}, {NumAssets}}, replace \in BOOLEAN :
           Subscribe(MaxTransports, ids, replace)
    \/ FcRun
    \/ FcStartMarket(BothSides)
    \/ FcWaitPoll
    \/ FcSleepDone
    \/ \E result \in OrderResults : FcOrderDone(result)
    \/ FcFinally
    \/ \E t \in Transports :
           /\ ~Pending
           /\ \/ Open(t)
              \/ Close(t)
              \/ TimerFire(t)
              \/ \E m \in WriterFeed : FeedRoom(m) /\ HandleMessage(t, m)

WriterSpec == OddInit /\ [][WriterNext]_vars

(* ------------- getMarketInfo, parseTokenIds, mapOutcomes --------------- *)
\* outcome labels and token ids a market lists
MaxLabels == 3

\* String(outcome).toLowerCase() on the labels that are listed
toLowerCase(label) ==
    CASE label = "Up" -> "up"
      [] label = "UP" -> "up"
      [] label = "Down" -> "down"
      [] OTHER -> label

OutcomeLabels == {"Up", "UP", "Down"}

\* a mapping in which the first of two equal labels keeps its value
RECURSIVE mapOutcomesFirstWinsFrom(_, _, _, _)
mapOutcomesFirstWinsFrom(result, outcomes, values, i) ==
    IF i > Len(outcomes) THEN result
    ELSE mapOutcomesFirstWinsFrom(
             IF i <= Len(values) /\ toLowerCase(outcomes[i]) \notin DOMAIN result
             THEN MapSet(result, toLowerCase(outcomes[i]), values[i])
             ELSE result,
             outcomes, values, i + 1)

mapOutcomesFirstWins(outcomes, values) ==
    mapOutcomesFirstWinsFrom(EmptyMap, outcomes, values, 1)

\* the forEach of mapOutcomes from its i-th element on (i counts from 1, so
\* the test i < values.length reads i <= Len(values))
RECURSIVE mapOutcomesFrom(_, _, _, _)
mapOutcomesFrom(result, outcomes, values, i) ==
    IF i > Len(outcomes) THEN result
    ELSE mapOutcomesFrom(
             IF i <= Len(values)
             THEN MapSet(result, toLowerCase(outcomes[i]), values[i])
             ELSE result,
             outcomes, values, i + 1)

\* mapOutcomes(outcomes, values) with the default cast, which returns its
\* argument
mapOutcomes(outcomes, values) == mapOutcomesFrom(EmptyMap, outcomes, values, 1)

\* getMarketInfo once getCurrent15mMarket has returned a market: parseTokenIds
\* maps the market's outcomes onto its clobTokenIds
ParseTokenIds(outcomes, clobTokenIds) ==
    /\ gamma.pc = "done"
    /\ gamma.result.found
    /\ gamma' = [pc |-> "parsed", coin |-> gamma.coin, now |-> gamma.now,
                 lookups |-> gamma.lookups, answers |-> gamma.answers,
                 result |-> gamma.result, outcomes |-> outcomes,
                 clobTokenIds |-> clobTokenIds,
                 tokenIds |-> mapOutcomes(outcomes, clobTokenIds)]
    /\ UNCHANGED <<trVars, mmRunning, mmWs, currentMarket, wsConnected, onBookCallbacks,
                   mmPc, mmStops, wait, onMarketChangeCallbacks, fcVars, ev, delivered,
                   histVars>>

\* one resolution at the start of a window, and the market it finds parsed
MarketInfoNext ==
    \/ GetCurrent15mMarket("BTC", WindowSeconds, 0)
    \/ \E answer \in LookupAnswers : LookupDone(answer)
    \/ \E outcomes \in SeqsUpTo(OutcomeLabels, MaxLabels),
          clobTokenIds \in SeqsUpTo(Assets, MaxLabels) :
              ParseTokenIds(outcomes, clobTokenIds)

MarketInfoSpec == SessionInit /\ [][MarketInfoNext]_vars

(* --- ClockSpec: the strategy's samples under a clock that can be set --- *)
\* Date.now() reads the system clock, which an adjustment can set back
ClockSetBack ==
    /\ now > 0
    /\ ~Pending
    /\ now' = now - 1
    /\ ev' = Ev("clockSetBack", 0, {}, TRUE, <<>>, <<>>, NoMsg)
    /\ delivered' = <<>>
    /\ UNCHANGED <<fcRunning, fcPc, priceHistory, submitted, appended, config, order,
                   waitStart, fcStopCalled>>
    /\ UNCHANGED <<trVars, mmVars, histVars>>

\* books of the up side whose mid prices are 0.60 and 0.25
ClockFeed ==
    {BookMsg(1, <<Level(p, "10")>>, <<Level(p, "10")>>) : p \in {"0.60", "0.25"}}

ClockNext ==
    \/ FcRun
    \/ FcStartMarket(BothSides)
    \/ Open(1)
    \/ \E m \in ClockFeed : SampleRoom(m) /\ HandleMessage(1, m)
    \/ FcWaitPoll
    \/ FcSleepDone
    \/ \E result \in OrderResults : FcOrderDone(result)
    \/ FcFinally
    \/ Advance
    \/ ClockSetBack

\* --lookback 5 of the command line
ClockInit ==
    /\ InitWith({})
    /\ config = [DefaultConfig EXCEPT !.priceLookbackSeconds = 5]

ClockSpec == ClockInit /\ [][ClockNext]_vars

(* ------------------------------- claims -------------------------------- *)
\* the instrument ids listed by the subscribe messages of a handler
SentIds(e) == UNION {e.sent[i] : i \in 1..Len(e.sent)}

\* C1: when the run loop connects again after a lost connection and the caller
\* made no subscribe() call in between, the ids it sends in its subscribe message
\* are exactly the ids that were subscribed when the connection was lost.
C1_ResubscribeSameSet ==
    (ev.op = "open" /\ lostOnce[ev.t] /\ ~callerSubscribed[ev.t])
        => SentIds(ev) = subsAtLoss[ev.t]

C1_Witness ==
    /\ ev.op = "open"
    /\ lostOnce[1]
    /\ ~callerSubscribed[1]
    /\ autoReconnect[1]
    /\ subsAtLoss[1] = Assets
    /\ ev.sent = <<Assets>>

\* C2 (as stated): every subscribe(ids) call made while not connected returns
\* success, the ids it records stay in the subscribed set, and the next connect
\* of the run loop sends every one of them.
C2_Original ==
    /\ [](ev.op = "subscribe" /\ ~isConnected(ev.t) => ev.ret)
    /\ [](\A t \in Transports : deferred[t] \subseteq subscribedAssets[t])
    /\ [][ev'.op = "open" => deferred[ev'.t] \subseteq SentIds(ev')]_vars

\* C2 (amended): a subscribe(ids) call with a non-empty id list made while not
\* connected returns success, the ids it records stay in the subscribed set
\* until a replace removes them, and the next connect of the run loop sends
\* every one of them; with an empty list the call returns failure.
C2_DeferredSubscribe ==
    /\ [](ev.op = "subscribe" /\ ~isConnected(ev.t) => (ev.ret <=> ev.ids # {}))
    /\ [](\A t \in Transports : deferred[t] \subseteq subscribedAssets[t])
    /\ [][ev'.op = "open" => deferred[ev'.t] \subseteq SentIds(ev')]_vars

C2_Witness ==
    /\ ev.op = "open"
    /\ callerSubscribed[1]
    /\ ~lostOnce[1]
    /\ subscribedAssets[1] = Assets
    /\ ev.sent = <<Assets>>

\* the callbacks a handler invoked
Invoked(e) == {e.cbs[i] : i \in 1..Len(e.cbs)}

\* C3 (amended): with autoReconnect the run loop returns only after stop() or
\* disconnect(); a failed connect and a mid-session error reach the registered
\* error callback, a close does not reach it, and after a failed connect or a
\* close the loop waits to connect again.
C3_RunSurvivesFailures ==
    /\ \A t \in Transports :
          runPc[t] = "done" => (stopRequested[t] \/ ~autoReconnect[t])
    /\ (ev.op \in {"connectFail", "error"} /\ onErrorCallback[ev.t])
          => ev.cbs # <<>> /\ ev.cbs[1] = "error"
    /\ ev.op = "close" => "error" \notin Invoked(ev)
    /\ (ev.op \in {"connectFail", "close"} /\ autoReconnect[ev.t]
            /\ ~stopRequested[ev.t])
          => runPc[ev.t] = "delay" /\ reconnectTimer[ev.t] = "armed"

\* C3 (as stated): the same, and a close that ends a healthy connection reaches
\* the registered error callback as well.
C3_Original ==
    /\ [](\A t \in Transports :
            runPc[t] = "done" => (stopRequested[t] \/ ~autoReconnect[t]))
    /\ []((ev.op \in {"connectFail", "error"} /\ onErrorCallback[ev.t])
            => "error" \in Invoked(ev))
    /\ [][(ev'.op = "close" /\ sockState[ev'.t] = "open" /\ onErrorCallback[ev'.t])
            => "error" \in Invoked(ev')]_vars

\* the peer closed a healthy connection: the error callback is registered and
\* was not invoked, and the loop waits to connect again
C3_Witness ==
    /\ ev.op = "close"
    /\ onErrorCallback[1]
    /\ "error" \notin Invoked(ev)
    /\ autoReconnect[1]
    /\ ~stopRequested[1]
    /\ runPc[1] = "delay"
    /\ reconnectTimer[1] = "armed"

\* C4: with autoReconnect and no stop requested, every lost connection and
\* every failed connect is followed by another connect attempt, and every
\* reconnect timer is armed with the same delay.
C4_ReconnectForever ==
    /\ [](\A t \in Transports :
            reconnectTimer[t] = "armed" => timerDelay[t] = DefaultReconnectInterval * 1000)
    /\ \A t \in Transports :
          (ev.op \in {"connectFail", "close"} /\ ev.t = t /\ autoReconnect[t]
              /\ ~stopRequested[t])
            ~> (runPc[t] = "connecting" \/ stopRequested[t])

C4_Witness ==
    /\ ev.op = "timer"
    /\ runPc[1] = "connecting"
    /\ lostOnce[1]
    /\ ~stopRequested[1]
    /\ timerDelay[1] = 5000

\* C7: once stop() was called, the transport opens no connection and processes
\* no message any more.
C7_StopIsFinal ==
    [][\A t \in Transports :
          (stopRequested[t] /\ ev'.t = t) => ev'.op \notin {"open", "message"}]_vars

\* a step of run() on transport t: the event it is suspended on arrives
RunStep(t) == Open(t) \/ ConnectFail(t) \/ Close(t) \/ TimerFire(t)

\* C5: after MarketManager.stop() disconnected a transport, the transport's
\* socket reference is dropped and its run loop has returned or still has the
\* event it waits for coming, so that it terminates.
C5_StopEndsRunLoop ==
    \A t \in Transports :
        (created[t] /\ stopRequested[t])
            => ~ws[t] /\ (runPc[t] = "done" \/ ENABLED RunStep(t))

\* C8: every MarketManager.stop() call, the second in a row and one made before
\* any start() included, raises nothing and leaves the session not running, not
\* connected and without a transport.
C8_StopIdempotent ==
    ev.op = "mmStop" => ev.ret /\ ~mmRunning /\ ~wsConnected /\ mmWs = 0

C8_Witness ==
    /\ ev.op = "mmStop"
    /\ mmStops = 2
    /\ ev.t = 0
    /\ \E t \in Transports : created[t] /\ stopRequested[t]

\* C9: a book update is handed to every registered listener once, in
\* registration order and with the same snapshot, whether or not some listener
\* throws or rejects; the session's fields are unchanged and the store holds
\* the decoded snapshot.
C9_ListenerIsolation ==
    /\ []((ev.op = "message" /\ Stores(ev.msg) /\ wired[ev.t])
            => /\ Len(delivered) = Len(onBookCallbacks)
               /\ \A i \in 1..Len(delivered) :
                     /\ delivered[i].listener = onBookCallbacks[i]
                     /\ delivered[i].snap = parseOrderbookSnapshot(ev.msg))
    /\ [][ev'.op = "message"
            => /\ UNCHANGED <<mmRunning, wsConnected, currentMarket, mmWs, onBookCallbacks, gamma, wait,
                   onMarketChangeCallbacks>>
               /\ orderbooks' = [orderbooks EXCEPT ![ev'.t] =
                                   IF Stores(ev'.msg)
                                   THEN StoreSnapshot(@, parseOrderbookSnapshot(ev'.msg))
                                   ELSE @]]_vars

C9_Witness ==
    /\ ev.op = "message"
    /\ Len(delivered) = 2
    /\ delivered[1].outcome = "throw"
    /\ delivered[2].outcome = "ok"
    /\ delivered[2].snap = delivered[1].snap

\* C10: a book message for instrument X leaves under X exactly the snapshot
\* decoded from the message, and leaves every other stored snapshot as it was.
C10_WholesaleReplace ==
    /\ []((ev.op = "message" /\ Stores(ev.msg))
            => /\ ev.msg.asset_id \in DOMAIN orderbooks[ev.t]
               /\ orderbooks[ev.t][ev.msg.asset_id] = parseOrderbookSnapshot(ev.msg))
    /\ [][(ev'.op = "message" /\ Stores(ev'.msg))
            => /\ DOMAIN orderbooks'[ev'.t]
                    = DOMAIN orderbooks[ev'.t] \cup {ev'.msg.asset_id}
               /\ \A k \in DOMAIN orderbooks[ev'.t] \ {ev'.msg.asset_id} :
                     orderbooks'[ev'.t][k] = orderbooks[ev'.t][k]]_vars

\* a book with other levels replaced the one stored for 1 while 2 kept its own
C10_Witness ==
    /\ ev.op = "message"
    /\ ev.msg.asset_id = 1
    /\ ev.msg.asks = <<>>
    /\ DOMAIN orderbooks[1] = Keys
    /\ Len(orderbooks[1][1].bids) = 2
    /\ orderbooks[1][1].asks = <<>>
    /\ orderbooks[1][NumAssets].asks # <<>>

\* C6: once stop() was called on a running strategy, no tick starts and no
\* order is submitted any more.
C6_StopEndsTicks ==
    [][fcStopCalled => /\ ev'.op # "tick"
                       /\ (order' # order => order' = NoOrder)]_vars

\* C11: whatever a reader gets from the store, at a tick or inside a listener,
\* is nothing or the snapshot decoded from one single book message of the feed,
\* and a listener is handed the very snapshot the store holds.
C11_NoTornSnapshot ==
    /\ \A t \in Transports, k \in Keys :
          \A got \in WsGetOrderbook(t, k) :
             /\ got.assetId = k
             /\ \E m \in StrategyFeed : got = parseOrderbookSnapshot(m)
    /\ \A i \in 1..Len(delivered) :
          WsGetOrderbook(ev.t, delivered[i].snap.assetId) = {delivered[i].snap}

\* the strategy's listener is handed the second book of the up instrument,
\* which replaced a first one with other levels
C11_Witness ==
    /\ ev.op = "message"
    /\ Len(delivered) = 1
    /\ delivered[1].listener = StrategyListener
    /\ Len(priceHistory.up) = 2
    /\ priceHistory.up[1].price = 600
    /\ priceHistory.up[2].price = 250
    /\ WsGetOrderbook(1, 1) = {delivered[1].snap}

\* the samples of a side, the last one apart, that are no older than the lookback
Recent(side) ==
    {i \in 1..(Len(priceHistory[side]) - 1) :
        (now - priceHistory[side][i].timestamp) * 5 <= config.priceLookbackSeconds}

\* the rule of C12 read on the current state
Fires(side) ==
    \E i \in Recent(side) :
        /\ \A j \in Recent(side) : j <= i
        /\ priceHistory[side][i].price
              - priceHistory[side][Len(priceHistory[side])].price
           >= config.dropThreshold

C13_NoCooldown ==
    [][ev'.op = "tick"
         => /\ Fires("up")
               => /\ order'.side = "up"
                  /\ submitted'.up = IF submitted.up = 2 THEN 2 ELSE submitted.up + 1
            /\ (Fires("down") /\ ~Fires("up"))
               => /\ order'.side = "down"
                  /\ submitted'.down = IF submitted.down = 2 THEN 2
                                       ELSE submitted.down + 1]_vars

\* a tick placed the second order for a drop of the up side, no sample having
\* come since the first
C13_Witness ==
    /\ ev.op = "tick"
    /\ order.side = "up"
    /\ submitted.up = 2
    /\ Fires("up")

\* the last price of a side's history: the current price of a detection
CurrentPrice(side) == priceHistory[side][Len(priceHistory[side])].price

OtherSide(side) == IF side = "up" THEN "down" ELSE "up"

C15_FailedOrderKeepsLoop ==
    [][(ev'.op = "orderDone" /\ ~ev'.ret)
         => /\ fcPc' \in {"order", "sleep"}
            /\ order'.side # order.side]_vars

\* the last n elements of a sequence, all of it when it is shorter
LastN(seq, n) ==
    IF Len(seq) <= n THEN seq ELSE SubSeq(seq, Len(seq) - n + 1, Len(seq))

\* C16: a side's history never holds more than 100 samples and is always the
\* last (up to) 100 samples handed to it, in the order they arrived.
C16_HistoryCap ==
    \A side \in {"up", "down"} :
        /\ Len(priceHistory[side]) <= 100
        /\ priceHistory[side] = LastN(appended[side], 100)

\* 101 samples arrived, the first at an earlier clock reading than the others:
\* 100 are held and none of them is the first
C16_Witness ==
    \E side \in {"up", "down"} :
        /\ Len(appended[side]) = 101
        /\ appended[side][1].timestamp = 0
        /\ appended[side][2].timestamp = 1
        /\ Len(priceHistory[side]) = 100
        /\ \A i \in 1..100 : priceHistory[side][i].timestamp = 1

\* the start of the 900-second window a clock reading lies in
FlooredTo900(t) == (t \div 900) * 900

\* C17: the resolver looks up the window starting at the clock floored to
\* 900 s, then that start + 900, then that start - 900, in this order; every
\* lookup but the last one made was a miss (so nothing is looked up after a
\* hit, and never more than three); it returns the window of the first
\* lookup answered by a market accepting orders, and none after three misses,
\* a failed or empty lookup being a miss.
C17_ResolverOrder ==
    LET start == FlooredTo900(gamma.now)
        tried == <<start, start + 900, start - 900>>
        n == Len(gamma.lookups)
        m == Len(gamma.answers)
    IN  /\ n <= 3
        /\ \A i \in 1..n : gamma.lookups[i].ts = tried[i]
        /\ \A i \in 1..m : i < n => gamma.answers[i] # "accepting"
        /\ gamma.pc = "lookup" => n = m + 1
        /\ gamma.pc = "done" =>
              /\ n = m
              /\ IF gamma.answers[m] = "accepting"
                 THEN gamma.result = [found |-> TRUE, window |-> tried[m]]
                 ELSE m = 3 /\ gamma.result = NoWindow

\* read in the middle of a window, the current window and the next one missed
\* (one lookup failed, one market was closed) and the previous window is
\* returned
C17_Witness ==
    /\ gamma.pc = "done"
    /\ gamma.now = 3 * 900 + 450
    /\ gamma.answers = <<"failed", "closed", "accepting">>
    /\ gamma.result = [found |-> TRUE, window |-> 2 * 900]

\* C18: when discovery finds no tradable window, start() returns false with
\* the running flag off; that step creates no transport, starts no run loop,
\* changes no transport's subscribed set and sends nothing.
C18_NoWindowNoTransport ==
    [][(mmPc = "discovering" /\ ev'.op = "mmStartDone" /\ ~ev'.ret)
         => /\ ~mmRunning'
            /\ created' = created
            /\ mmWs' = mmWs
            /\ wsRunning' = wsRunning
            /\ runPc' = runPc
            /\ subscribedAssets' = subscribedAssets
            /\ ev'.sent = <<>>]_vars

\* the first start() of a session has returned false: there is no transport
C18_Witness ==
    /\ ev.op = "mmStartDone"
    /\ ~ev.ret
    /\ ~mmRunning
    /\ mmWs = 0
    /\ \A t \in Transports : ~created[t] /\ runPc[t] = "idle" /\ subscribedAssets[t] = {}

\* C19: the step in which start() returns true leaves a transport that did not
\* exist before, whose subscribed set is exactly the token ids of the resolved
\* market and whose run loop has begun (it is at its first connection
\* attempt); start() has returned while that transport is not connected and
\* its run loop has not ended.
C19_StartSubscribesAndRuns ==
    [][(mmPc = "discovering" /\ ev'.op = "mmStartDone" /\ ev'.ret)
         => /\ mmWs' # 0
            /\ ~created[mmWs']
            /\ created'[mmWs']
            /\ subscribedAssets'[mmWs'] = {currentMarket'.up, currentMarket'.down} \ {0}
            /\ wsRunning'[mmWs']
            /\ runPc'[mmWs'] = "connecting"
            /\ sockState'[mmWs'] # "open"
            /\ mmPc' = "idle"]_vars

\* start() has just returned true for a market with both sides: the new
\* transport holds both token ids and is still connecting
C19_Witness ==
    /\ ev.op = "mmStartDone"
    /\ ev.ret
    /\ mmWs # 0
    /\ currentMarket.up = 1
    /\ currentMarket.down = NumAssets
    /\ subscribedAssets[mmWs] = {1, NumAssets}
    /\ runPc[mmWs] = "connecting"
    /\ sockState[mmWs] = "connecting"

\* C20 as stated: waitForData returns true exactly when some pass made before
\* the timeout elapsed found a stored book for the up or the down side, and
\* returns false only once the timeout has elapsed.
C20_Original ==
    wait.pc = "done" =>
        /\ wait.ret <=> wait.sawBook
        /\ ~wait.ret => ~(Ms(now - wait.start) < wait.timeout)

\* C20: waitForData returns true exactly when some pass made before the
\* timeout elapsed found the session connected and a stored book for the up
\* or the down side, and returns false only once the timeout has elapsed.
C20_WaitForData ==
    wait.pc = "done" =>
        /\ wait.ret <=> wait.sawData
        /\ ~wait.ret => ~(Ms(now - wait.start) < wait.timeout)

\* a pass found a stored book while the session was not connected, and the
\* wait ended with false after the timeout
C20_Witness ==
    /\ wait.pc = "done"
    /\ ~wait.ret
    /\ wait.sawBook
    /\ wait.timeout = 5000
    /\ HasBook

\* C21: a step that is not the successful return of a start() call leaves the
\* current market and every transport's subscribed set as they were, be it
\* the clock moving, a socket event, a feed message, a stop() or a start()
\* that finds no market; and no step invokes a market-change listener.
C21_NoRollover ==
    [][/\ ev'.op # "mmStartDone" \/ ~ev'.ret
          => /\ currentMarket' = currentMarket
             /\ subscribedAssets' = subscribedAssets
       /\ \A i \in 1..Len(ev'.cbs) :
              ev'.cbs[i] \in {"connect", "disconnect", "error", "book"}]_vars

\* started for both sides, a market-change listener registered, the socket
\* lost and opened again, a book stored and the clock moved on: market
\* and subscriptions are those of the start
C21_Witness ==
    /\ mmWs # 0
    /\ currentMarket = [defined |-> TRUE, up |-> 1, down |-> NumAssets]
    /\ subscribedAssets[mmWs] = {1, NumAssets}
    /\ Len(onMarketChangeCallbacks) > 0
    /\ lostOnce[mmWs]
    /\ sockState[mmWs] = "open"
    /\ DOMAIN orderbooks[mmWs] # {}
    /\ now > 0

\* a level whose price or size is no number
BadLevel(level) == parseFloat(level.price) = NaN \/ parseFloat(level.size) = NaN

\* text that is no JSON, or a book message without an instrument id, with
\* bids or asks that are no list of levels, or with a level that lacks a
\* numeric price or size
Malformed(m) ==
    \/ ~m.json
    \/ /\ m.event_type = "book"
       /\ \/ ~m.wellFormed
          \/ m.asset_id = 0
          \/ \E i \in 1..Len(m.bids) : BadLevel(m.bids[i])
          \/ \E i \in 1..Len(m.asks) : BadLevel(m.asks[i])

\* C22: a malformed inbound message is dropped: the store is as it was, no
\* book listener is invoked for it, and the socket and the run loop are where
\* they were.
C22_MalformedDropped ==
    [][(ev'.op = "message" /\ Malformed(ev'.msg))
         => /\ orderbooks' = orderbooks
            /\ \A i \in 1..Len(ev'.cbs) : ev'.cbs[i] # "book"
            /\ sockState' = sockState
            /\ runPc' = runPc
            /\ wsRunning' = wsRunning]_vars

\* C23: a message that parses and whose event_type is none of book,
\* price_change and last_trade_price changes nothing the transport, the
\* session or the strategy holds, and invokes no callback: no book listener
\* and not the error callback.
C23_UnknownIgnored ==
    [][(/\ ev'.op = "message"
        /\ ev'.msg.json
        /\ ev'.msg.event_type \notin {"book", "price_change", "last_trade_price"})
         => /\ UNCHANGED <<trVars, mmVars, fcVars>>
            /\ ev'.cbs = <<>>
            /\ delivered' = <<>>]_vars

\* a message of an unknown kind has arrived at a transport that holds a book
\* and has an error callback, while the session's transport has a listener
C23_Witness ==
    /\ ev.op = "message"
    /\ ev.msg.event_type = "other"
    /\ onErrorCallback[ev.t]
    /\ DOMAIN orderbooks[ev.t] # {}
    /\ mmWs # 0
    /\ wired[mmWs]
    /\ onBookCallbacks # <<>>

GoodLevel(level) == ~BadLevel(level)

\* a book message without the levels whose price or size is no number
WithoutBadLevels(m) ==
    [m EXCEPT !.bids = SelectSeq(@, GoodLevel), !.asks = SelectSeq(@, GoodLevel)]

\* C24: a book message with a level whose price or size is no number is
\* stored, and what is stored is the snapshot of the message without that
\* level: the other levels, and bestBid, bestAsk and midPrice derived from
\* them alone.
C24_BadLevelDropped ==
    [][(/\ ev'.op = "message"
        /\ ev'.msg.json
        /\ ev'.msg.event_type = "book"
        /\ ev'.msg.wellFormed
        /\ WithoutBadLevels(ev'.msg) # ev'.msg)
         => /\ ev'.msg.asset_id \in DOMAIN orderbooks'[ev'.t]
            /\ orderbooks'[ev'.t][ev'.msg.asset_id] =
                   parseOrderbookSnapshot(WithoutBadLevels(ev'.msg))]_vars

\* C25: in every snapshot the store holds, each bid is priced strictly below
\* the bid before it and each ask strictly above the ask before it, so no two
\* levels of a side share a price.
C25_StrictlySorted ==
    \A t \in Transports : \A k \in DOMAIN orderbooks[t] :
        LET snap == orderbooks[t][k]
        IN  /\ \A i \in 1..(Len(snap.bids) - 1) :
                   Less(snap.bids[i + 1].price, snap.bids[i].price)
            /\ \A i \in 1..(Len(snap.asks) - 1) :
                   Less(snap.asks[i].price, snap.asks[i + 1].price)

Prices(levels) == {levels[i].price : i \in 1..Len(levels)}

\* C26: for every stored snapshot whose levels all have numeric prices,
\* bestBid is the highest bid price, or 0 with no bids; bestAsk is the lowest
\* ask price, or 1 with no asks; midPrice is their mean when both sides have
\* levels, bestBid with bids only, bestAsk with asks only, and 0.5 with none.
C26_BestAndMid ==
    \A t \in Transports : \A k \in DOMAIN orderbooks[t] :
        LET snap == orderbooks[t][k]
            bidPrices == Prices(snap.bids)
            askPrices == Prices(snap.asks)
        IN  NaN \notin bidPrices \cup askPrices
            => /\ snap.bestBid = IF bidPrices = {} THEN 0
                                 ELSE CHOOSE p \in bidPrices : \A q \in bidPrices : q <= p
               /\ snap.bestAsk = IF askPrices = {} THEN 1000
                                 ELSE CHOOSE p \in askPrices : \A q \in askPrices : p <= q
               /\ snap.midPrice =
                      IF bidPrices # {} /\ askPrices # {}
                      THEN (snap.bestBid + snap.bestAsk) \div 2
                      ELSE IF bidPrices # {} THEN snap.bestBid
                      ELSE IF askPrices # {} THEN snap.bestAsk
                      ELSE 500

\* C27: while the interval is armed and the socket is open every interval
\* sends a ping, and when a ping stays unanswered for the ping timeout the
\* transport leaves the connected state.
C27_KeepaliveLoss ==
    [][/\ ev'.op = "ping" => (ev'.ret <=> sockState[ev'.t] = "open")
       /\ ev'.op = "pongMissed" => sockState'[ev'.t] # "open"]_vars

\* C28: subscribe(ids, true) with ids not empty leaves exactly ids subscribed
\* and no snapshot of an instrument outside ids in the store, and a feed
\* message that arrives next does not put one there.
C28_ReplaceScopesStore ==
    [][/\ \A ids \in (SUBSET Assets) \ {{}} :
              Subscribe(1, ids, TRUE)
                  => /\ subscribedAssets'[1] = ids
                     /\ DOMAIN orderbooks'[1] \subseteq ids
       /\ (/\ ev.op = "subscribe"
           /\ ev.ids # {}
           /\ subscribedAssets[ev.t] = ev.ids
           /\ orderbooks[ev.t] = EmptyMap
           /\ ev'.op = "message"
           /\ ev'.t = ev.t)
            => DOMAIN orderbooks'[ev.t] \subseteq ev.ids]_vars

\* the step handles the feed message it names and leaves in the store of
\* its transport at most the snapshot of that message, in the histories at
\* most one new sample a side, the mid price of that snapshot, at the end
MessageWrite ==
    /\ ev'.op = "message"
    /\ \A t \in Transports :
           orderbooks'[t] # orderbooks[t]
               => /\ t = ev'.t
                  /\ orderbooks'[t] = MapSet(orderbooks[t], ev'.msg.asset_id,
                                             parseOrderbookSnapshot(ev'.msg))
    /\ \A side \in {"up", "down"} :
           priceHistory'[side] # priceHistory[side]
               => priceHistory'[side] =
                      Append(priceHistory[side],
                             [timestamp |-> now,
                              price |-> parseOrderbookSnapshot(ev'.msg).midPrice])

\* C29 as stated: the store and the price histories change only in the step
\* that handles one feed message; no other step changes them.
C29_Original ==
    [][(orderbooks' # orderbooks \/ priceHistory' # priceHistory) => MessageWrite]_vars

\* C29: the store and the price histories change only in the step that
\* handles one feed message, but for subscribe with replace and ids not empty,
\* which empties the store of its transport; connecting, reconnecting,
\* disconnect, the session's stop and the strategy's ticks and orders change
\* neither.
C29_SingleWriter ==
    [][(orderbooks' # orderbooks \/ priceHistory' # priceHistory)
         => \/ MessageWrite
            \/ /\ \E ids \in (SUBSET Assets) \ {{}} : Subscribe(ev'.t, ids, TRUE)
               /\ orderbooks'[ev'.t] = EmptyMap
               /\ priceHistory' = priceHistory]_vars

\* the session was run, ticked and stopped again with samples in the up
\* history, and the transport used on its own was disconnected with a book in
\* its store: both are still there
C29_Witness ==
    /\ fcPc = "done"
    /\ Len(priceHistory.up) = MaxHistory
    /\ ev.op = "disconnect"
    /\ ev.t = MaxTransports
    /\ lostOnce[1]
    /\ DOMAIN orderbooks[MaxTransports] # {}

\* the indexes that have both a label and a value
Mapped(labels, values) == 1..Min(Len(labels), Len(values))

\* C30: the map has exactly the lower-cased labels of the indexes that have a
\* value as its keys, each key holds the value at the last such index with
\* that label, and labels beyond the values add nothing; every pair of lists
\* is mapped, none fails.
C30_MapOutcomes ==
    gamma.pc = "parsed" =>
        LET labels == gamma.outcomes
            values == gamma.clobTokenIds
            lower == [i \in 1..Len(labels) |->
                         IF labels[i] \in {"Up", "UP"} THEN "up" ELSE "down"]
            map == gamma.tokenIds
        IN  /\ DOMAIN map = {lower[i] : i \in Mapped(labels, values)}
            /\ \A i \in Mapped(labels, values) :
                   (\A j \in Mapped(labels, values) : j > i => lower[j] # lower[i])
                       => map[lower[i]] = values[i]

\* Up, UP and Down mapped onto two token ids: up holds the second id, the
\* first is overwritten and down has no entry
C30_Witness ==
    /\ gamma.pc = "parsed"
    /\ gamma.outcomes = <<"Up", "UP", "Down">>
    /\ gamma.clobTokenIds = <<1, NumAssets>>
    /\ DOMAIN gamma.tokenIds = {"up"}
    /\ gamma.tokenIds["up"] = NumAssets

\* C31: the store of every transport holds snapshots only of instruments
\* in that transport's subscribed set.
C31_StoreWithinSubscribed ==
    \A t \in Transports : DOMAIN orderbooks[t] \subseteq subscribedAssets[t]

\* the transports whose run loop goes on: run() was called and neither
\* stop() nor disconnect() since
Looping == {t \in Transports : wsRunning[t]}

\* C32: at most one transport of the session has a run loop that goes on,
\* and it is the one the session holds.
C32_OneRunLoop ==
    /\ Cardinality(Looping) <= 1
    /\ \A t \in Looping : mmWs = t

\* C33: when start() completes and stop() was called while it awaited the
\* market, the session is not running and the transport it holds, if any,
\* has no run loop going on.
C33_StopDuringStart ==
    [][(mmPc = "discovering" /\ mmPc' = "idle" /\ mmStops > 0)
          => /\ ~mmRunning'
             /\ mmWs' # 0 => ~wsRunning'[mmWs']]_vars

\* C34: once stop() has returned and start() was not called again, no step
\* invokes the session's book, connect or disconnect listeners.
C34_QuietAfterStop ==
    [][(mmStops > 0 /\ mmPc = "idle" /\ mmWs = 0)
          => \A i \in 1..Len(ev'.cbs) :
                 ev'.cbs[i] \notin {"book", "connect", "disconnect"}]_vars

\* the step invokes the named callback of the transport it is about
Notifies(name) == \E i \in 1..Len(ev'.cbs) : ev'.cbs[i] = name

\* C35: a transport's connect callback is invoked only while no connection
\* of it is up, and its disconnect callback only for a connection whose
\* connect callback was invoked: a failed attempt notifies no disconnect.
C35_ConnectDisconnectAlternate ==
    [][/\ Notifies("connect") => runPc[ev'.t] = "connecting"
       /\ Notifies("disconnect") => runPc[ev'.t] = "serving"]_vars

\* C36: a start() that ends without returning true, by returning false or
\* by throwing, leaves the running flag false.
C36_NotStartedNotRunning ==
    [][(mmPc = "discovering" /\ mmPc' = "idle"
            /\ (ev'.op = "mmStartThrew" \/ (ev'.op = "mmStartDone" /\ ~ev'.ret)))
          => ~mmRunning']_vars

\* C37: when start() returns true the market it resolved has an up and a
\* down token id and both are in the subscribed set of the session's
\* transport, which is therefore not empty.
C37_TrueOnlyWithBothSides ==
    [][(mmPc = "discovering" /\ ev'.op = "mmStartDone" /\ ev'.ret)
         => /\ currentMarket'.up # 0
            /\ currentMarket'.down # 0
            /\ {currentMarket'.up, currentMarket'.down}
                   \subseteq subscribedAssets'[mmWs']
            /\ subscribedAssets'[mmWs'] # {}]_vars

\* C38: the timestamps of each history never decrease from one sample to
\* the next, and when a tick orders for a side the sample just before the
\* last one of that side is within the lookback, so that it is the
\* reference of the detection.
C38_ReferenceIsPreceding ==
    [][/\ \A side \in {"up", "down"} :
              \A i \in 1..(Len(priceHistory'[side]) - 1) :
                  priceHistory'[side][i].timestamp
                      <= priceHistory'[side][i + 1].timestamp
       /\ (order' # order /\ order' # NoOrder)
             => LET history == priceHistory[order'.side]
                    n == Len(history)
                IN  /\ n >= 2
                    /\ Ms(now - history[n - 1].timestamp)
                          <= config.priceLookbackSeconds * 1000
                    /\ history[n - 1].price - history[n].price
                          >= config.dropThreshold]_vars

C40_OnlyBooksWrite ==
    [][/\ (ev'.op = "message"
              /\ ev'.msg.event_type \in {"price_change", "last_trade_price"})
            => orderbooks' = orderbooks
       /\ \A t \in Transports :
              \A k \in DOMAIN orderbooks'[t] :
                  (k \notin DOMAIN orderbooks[t]
                      \/ orderbooks'[t][k] # orderbooks[t][k])
                    => /\ ev'.op = "message"
                       /\ ev'.t = t
                       /\ ev'.msg.event_type = "book"
                       /\ ev'.msg.asset_id = k
                       /\ orderbooks'[t][k] = parseOrderbookSnapshot(ev'.msg)]_vars

\* a price_change for instrument 1 has been handled while the store holds
\* the book with bids at 0.30 and 0.25 and no asks for it
C40_Witness ==
    /\ ev.op = "message"
    /\ ev.msg.event_type = "price_change"
    /\ ev.msg.wellFormed
    /\ ev.msg.asset_id = 1
    /\ 1 \in DOMAIN orderbooks[ev.t]
    /\ orderbooks[ev.t][1].bestBid = 300
    /\ orderbooks[ev.t][1].bestAsk = AskDefault
    /\ orderbooks[ev.t][1].midPrice = 300

====
